---------------------------- MODULE Spec2Model ----------------------------
(***************************************************************************)
(* A model of the ingress conversion engine (IngressConfig): the           *)
(* compilation passes behind List, the three caches and the watched-secret *)
(* set they commit, the secret-change callback, and the weight             *)
(* normalization of routes.                                                *)
(***************************************************************************)
EXTENDS Integers, Sequences, FiniteSets, TLC

VARIABLES
    store,                      \* the ingress objects that exist in the clusters
    synced,                     \* the cluster ids whose controller reports synced
    mutex,                      \* IngressConfig.mutex: its writer and its readers
    remoteIngressControllers,   \* the cluster ids with a registered controller
    watchedSecretSet,           \* IngressConfig.watchedSecretSet
    ingressRouteCache,          \* IngressConfig.ingressRouteCache
    ingressDomainCache,         \* IngressConfig.ingressDomainCache
    cachedEnvoyFilters,         \* IngressConfig.cachedEnvoyFilters
    thr,                        \* each thread's call in progress and its locals
    runs,                       \* the passes run one after the other (SpecPass)
    nRoute,     \* normalizeWeightedCluster: the route handed to it
    nResult,    \* normalizeWeightedCluster: what the call left behind
    nPc,        \* normalizeWeightedCluster: "call" before, "done" after
    sCo,        \* applyAppRoot, applyInternalActiveRedirect: the accumulator handed over
    sResult,    \* applyAppRoot, applyInternalActiveRedirect: the accumulator left behind
    sPc,        \* "call" before, the name of the function applied after
    annotations,    \* an annotation parser: the annotations handed to Parse
    config,         \* an annotation parser: the Ingress config Parse filled
    pPc,            \* "call" before, the name of the parser applied after
    gGateway,       \* downstreamTLS.ApplyGateway: the servers of the gateway handed to it
    gResult,        \* downstreamTLS.ApplyGateway: the servers it left behind
    handlers,           \* the handler lists of IngressConfig, by kind
    adapterHandlers,    \* the handlers the engine registered on each cluster's controller, by kind
    initialized,        \* the clusters InitializeCluster was called for
    registered          \* the calls of RegisterEventHandler made so far: kind and handler

engineVars == <<mutex, remoteIngressControllers, watchedSecretSet, ingressRouteCache,
                ingressDomainCache, cachedEnvoyFilters>>
normVars == <<nRoute, nResult, nPc>>
spliceVars == <<sCo, sResult, sPc>>
parserVars == <<annotations, config, pPc, gGateway, gResult>>
handlerVars == <<handlers, adapterHandlers, initialized, registered>>

vars == <<store, synced, mutex, remoteIngressControllers, watchedSecretSet, ingressRouteCache,
          ingressDomainCache, cachedEnvoyFilters, thr, runs, nRoute, nResult, nPc,
          sCo, sResult, sPc, annotations, config, pPc, gGateway, gResult, handlers, adapterHandlers,
          initialized, registered>>

(***************************************************************************)
(* Bounds of the model.                                                    *)
(***************************************************************************)
MaxDests == 3
\* SpecPass: the number of objects of a pass, and the passes run on them.
MaxObjs == 2
MaxRuns == 2
\* Spec: the objects Ingress[1..StoreObjs] come and go in the clusters.
StoreObjs == 2

\* Declared destination weights and route-level weight totals the inputs
\* are drawn from (non-negative, as parsed weights are).
DeclaredWeights == {0, 1, 20, 30, 33, 34, 50, 53, 100}
RouteWeightTotals == {0, 50, 100}

(***************************************************************************)
(* int32 arithmetic (Go wraps on overflow).                                *)
(***************************************************************************)
MaxInt32 == 2147483647
MinInt32 == -MaxInt32 - 1

\* a + b in int32, for int32 a and b, without leaving the int32 range on
\* the way.
Add32(a, b) ==
    IF a >= 0 /\ b >= 0
    THEN IF a > MaxInt32 - b THEN (a + MinInt32) + (b + MinInt32) ELSE a + b
    ELSE IF a < 0 /\ b < 0
    THEN IF a < MinInt32 - b THEN (a - MinInt32) + (b - MinInt32) ELSE a + b
    ELSE a + b

\* a - b in int32.
Sub32(a, b) ==
    IF b = MinInt32
    THEN IF a >= 0 THEN (a + MinInt32) ELSE (a - MinInt32)
    ELSE Add32(a, -b)

(***************************************************************************)
(* float32 arithmetic of lines 671-672, for 0 <= w <= t < 2^24 (integers   *)
(* float32 holds exactly).  A positive float32 is a pair <<m, k>> standing *)
(* for m / 2^k with 2^23 <= m <= 2^24.                                     *)
(***************************************************************************)
RoundHalfEven(q, twiceRem, den) ==
    \* q + rem/den rounded to the nearest integer, ties to even;
    \* twiceRem = 2 * rem.
    IF twiceRem > den THEN q + 1
    ELSE IF twiceRem < den THEN q
    ELSE IF q % 2 = 1 THEN q + 1 ELSE q

RECURSIVE DivBits(_, _, _, _)
\* Binary long division: q holds the leading bits of w/t found so far, r
\* the remainder, k the number of fraction bits.
DivBits(q, r, t, k) ==
    IF q >= 8388608
    THEN <<RoundHalfEven(q, 2 * r, t), k>>
    ELSE IF 2 * r >= t
         THEN DivBits(2 * q + 1, 2 * r - t, t, k + 1)
         ELSE DivBits(2 * q, 2 * r, t, k + 1)

\* float32(w) / float32(t), for 1 <= w, 1 <= t.
F32Div(w, t) == DivBits(w \div t, w % t, t, 0)

\* int32(f * 100) for the float32 f = <<m, k>>: the product rounded to
\* float32, then truncated.
F32Mul100ToInt32(f) ==
    LET p == f[1] * 100
        s == IF p \div 64 < 16777216 THEN 6 ELSE 7
        m2 == RoundHalfEven(p \div (2 ^ s), 2 * (p % (2 ^ s)), 2 ^ s)
        e == f[2] - s
    IN  IF e > 30 THEN 0
        ELSE IF e >= 0 THEN m2 \div (2 ^ e)
        ELSE m2 * (2 ^ (-e))

\* What int32(NaN) may yield: "the result value is implementation-dependent"
\* (amd64 yields the minimum int32, arm64 yields 0).
NaNToInt32 == {MinInt32, 0}

\* Lines 671-672: int32(float32(w) / float32(t) * 100); 0/0 is NaN.
WeightPercent(w, t, nan) ==
    IF t = 0 THEN nan
    ELSE IF w = 0 THEN 0
    ELSE F32Mul100ToInt32(F32Div(w, t))

(***************************************************************************)
(* normalizeWeightedCluster (lines 646-683).  A route is a record with     *)
(* dests, a sequence of [svc, weight], and weightTotal.  The result        *)
(* carries the destinations as left behind, whether the call panicked      *)
(* (index out of range at line 677) and whether cache.Update was called.   *)
(***************************************************************************)
RECURSIVE SumOthers32(_, _)
\* Lines 652-659: the int32 sum of the weights from index i on.
SumOthers32(dests, i) ==
    IF i > Len(dests) THEN 0
    ELSE Add32(dests[i].weight, SumOthers32(dests, i + 1))

\* Lines 652-682: the path taken by a route that has not exactly one
\* destination.
NormalizeFromFirst(route, nan) ==
    LET dests == route.dests
        n == Len(dests)
        declared == SumOthers32(dests, 2)
        weightTotal == IF declared < route.weightTotal
                       THEN route.weightTotal ELSE declared
        others == [i \in 1..n |->
                     IF i = 1 THEN dests[i]
                     ELSE [dests[i] EXCEPT
                             !.weight = WeightPercent(dests[i].weight, weightTotal, nan)]]
        sum == SumOthers32(others, 2)
    IN  IF n = 0
        THEN [panic |-> TRUE, updated |-> FALSE, dests |-> dests]
        ELSE [panic |-> FALSE, updated |-> TRUE,
              dests |-> [others EXCEPT ![1].weight = Sub32(100, sum)]]

\* normalizeWeightedCluster without the assignment of line 648.
normalizeWeightedCluster_KeepsSingleWeight(route, nan) ==
    IF Len(route.dests) = 1
    THEN [panic |-> FALSE, updated |-> FALSE, dests |-> route.dests]
    ELSE NormalizeFromFirst(route, nan)

normalizeWeightedCluster(route, nan) ==
    IF Len(route.dests) = 1
    THEN [panic |-> FALSE, updated |-> FALSE,
          dests |-> <<[route.dests[1] EXCEPT !.weight = 100]>>]
    ELSE NormalizeFromFirst(route, nan)

(***************************************************************************)
(* Source objects.  Ingress[i] is the i-th ingress of the catalogue in     *)
(* creation order: its identity and routing spec, what its annotations     *)
(* decode to (auth, app-root, fallback, canary), and how its cluster's     *)
(* adapter treats it.                                                      *)
(***************************************************************************)
BaseIngress ==
    [cluster |-> "c1", ns |-> "ns", name |-> "web", host |-> "a.com", path |-> "/",
     svc |-> "s1", port |-> 80,
     canary |-> FALSE, weight |-> 0, weightTotal |-> 100,
     defaultBackendOnly |-> FALSE,
     authSecret |-> "", authRealm |-> "",
     appRoot |-> "", marker |-> FALSE, fallback |-> "", fallbackPort |-> 0,
     convErr |-> FALSE, noFeature |-> FALSE]

Ingress ==
    << [BaseIngress EXCEPT !.authSecret = "sec1", !.authRealm = "r1"],
       [BaseIngress EXCEPT !.name = "web-canary", !.svc = "s2", !.canary = TRUE,
                           !.weight = 20],
       [BaseIngress EXCEPT !.name = "api", !.host = "b.com", !.port = 8080,
                           !.authSecret = "sec1", !.authRealm = "r1",
                           !.appRoot = "/app"],
       [BaseIngress EXCEPT !.name = "admin", !.path = "/admin", !.svc = "s3",
                           !.authSecret = "sec2", !.authRealm = "r2",
                           !.marker = TRUE],
       [BaseIngress EXCEPT !.name = "bad", !.host = "b.com", !.svc = "s4",
                           !.convErr = TRUE],
       [BaseIngress EXCEPT !.name = "orphan", !.host = "c.com", !.svc = "s5",
                           !.noFeature = TRUE],
       [BaseIngress EXCEPT !.name = "fallback-all", !.host = "*", !.svc = "s6",
                           !.defaultBackendOnly = TRUE],
       [BaseIngress EXCEPT !.cluster = "c2", !.name = "shop", !.host = "b.com",
                           !.path = "/shop", !.svc = "s7",
                           !.marker = TRUE, !.fallback = "s8", !.fallbackPort = 8081] >>

IngressIds == 1..Len(Ingress)
Clusters == {"c1", "c2"}

(***************************************************************************)
(* Go maps are functions; a missing key reads as the zero value.           *)
(***************************************************************************)
EmptyMap == <<>>
Get(m, k) == IF k \in DOMAIN m THEN m[k] ELSE <<>>
Put(m, k, v) == [x \in (DOMAIN m) \cup {k} |-> IF x = k THEN v ELSE m[x]]

\* The orders in which a range statement may visit the keys of a map.
Orders(S) == {f \in [1..Cardinality(S) -> S] : \A i, j \in DOMAIN f : f[i] = f[j] => i = j}

\* common.SortIngressByCreationTime: the listed objects in creation order.
RECURSIVE SortIngressByCreationTime(_)
SortIngressByCreationTime(ids) ==
    IF ids = {} THEN <<>>
    ELSE LET first == CHOOSE i \in ids : \A j \in ids : i <= j
         IN  <<first>> \o SortIngressByCreationTime(ids \ {first})

CleanHost(host) == IF host = "*" THEN "wildcard" ELSE host

(***************************************************************************)
(* The accumulator of a route pass (common.ConvertOptions, lines 299-304), *)
(* with the log of the objects handed to the adapter in each stage.        *)
(***************************************************************************)
NewConvertOptions ==
    [HTTPRoutes |-> EmptyMap, VirtualServices |-> EmptyMap,
     CanaryIngresses |-> <<>>, HasDefaultBackend |-> FALSE,
     IngressRouteCache |-> {},
     Gateways |-> EmptyMap, IngressDomainCache |-> {},
     Service2TrafficPolicy |-> EmptyMap,
     handed |-> [gateway |-> <<>>, route |-> <<>>, canary |-> <<>>,
                 defaultBackend |-> <<>>, trafficPolicy |-> <<>>],
     errors |-> 0, panic |-> FALSE]

Handed(co, stage, id) == [co EXCEPT !.handed[stage] = Append(@, id)]
LogError(co) == [co EXCEPT !.errors = @ + 1]

NewRoute(id) ==
    LET o == Ingress[id]
    IN  [name |-> <<o.ns, o.name, o.path>>, host |-> o.host, path |-> o.path,
         dests |-> <<[svc |-> o.svc, weight |-> 100]>>, weightTotal |-> 0,
         obj |-> id, cluster |-> o.cluster, marker |-> o.marker,
         redirect |-> "", redirectCode |-> 0]

(***************************************************************************)
(* The per-cluster adapter (common.IngressController), the way section 4   *)
(* of the design describes its contributions.  Each operator returns the   *)
(* accumulator after the call; an object whose conversion fails            *)
(* contributes nothing and the engine logs the error.                      *)
(***************************************************************************)
ConvertHTTPRoute(co, id) ==
    LET o == Ingress[id]
    IN  IF o.convErr THEN LogError(co)
        ELSE IF o.canary THEN [co EXCEPT !.CanaryIngresses = Append(@, id)]
        ELSE IF o.defaultBackendOnly THEN [co EXCEPT !.HasDefaultBackend = TRUE]
        ELSE [co EXCEPT
                !.HTTPRoutes = Put(@, o.host, Append(Get(@, o.host), NewRoute(id))),
                !.VirtualServices =
                    IF o.noFeature \/ o.host \in DOMAIN @ THEN @
                    ELSE Put(@, o.host, [appRoot |-> o.appRoot, obj |-> id])]

ApplyCanaryIngress(co, id) ==
    LET o == Ingress[id]
        splice(r) == IF r.path = o.path
                     THEN [r EXCEPT !.dests = Append(@, [svc |-> o.svc, weight |-> o.weight]),
                                    !.weightTotal = o.weightTotal]
                     ELSE r
    IN  IF o.convErr THEN LogError(co)
        ELSE IF o.host \notin DOMAIN co.HTTPRoutes THEN co
        ELSE [co EXCEPT !.HTTPRoutes[o.host] = [i \in DOMAIN @ |-> splice(@[i])]]

ApplyDefaultBackend(co, id) ==
    LET o == Ingress[id]
    IN  IF ~o.defaultBackendOnly THEN co
        ELSE IF o.convErr THEN LogError(co)
        ELSE IF Len(Get(co.HTTPRoutes, "*")) > 0 THEN co
        ELSE [co EXCEPT
                !.HTTPRoutes = Put(@, "*", <<[NewRoute(id) EXCEPT !.host = "*"]>>),
                !.VirtualServices =
                    IF "*" \in DOMAIN @ THEN @
                    ELSE Put(@, "*", [appRoot |-> o.appRoot, obj |-> id])]

ConvertGateway(co, id) ==
    LET o == Ingress[id]
    IN  IF o.convErr THEN LogError(co)
        ELSE IF o.host \in DOMAIN co.Gateways
        THEN co
        ELSE [co EXCEPT
                !.Gateways = Put(@, o.host, [host |-> o.host, cluster |-> o.cluster, obj |-> id]),
                !.IngressDomainCache = @ \cup {o.host}]

ConvertTrafficPolicy(co, id) ==
    LET o == Ingress[id]
        key == [ns |-> o.ns, name |-> o.svc, port |-> o.port]
    IN  IF o.convErr THEN LogError(co)
        ELSE IF key \in DOMAIN co.Service2TrafficPolicy THEN co
        ELSE [co EXCEPT !.Service2TrafficPolicy =
                          Put(@, key, [port |-> o.port, obj |-> id])]

\* IngressRouteCache.Update(route): the cache records the route under its
\* name with the weights it has now.
RouteCacheUpdate(cache, r) ==
    {e \in cache : e.name # r.name} \cup {[name |-> r.name, host |-> r.host, dests |-> r.dests]}

(***************************************************************************)
(* The engine (IngressConfig).  EngineNamespace and EngineClusterId are    *)
(* the namespace and clusterId given to NewIngressConfig.                  *)
(***************************************************************************)
EngineNamespace == "sys"
EngineClusterId == "c1"
IstioIngressGatewayName == "istio-ingressgateway"
GlobalGatewayName == <<EngineNamespace, EngineClusterId, "global">>

AdapterCall(stage, co, id) ==
    CASE stage = "gateway" -> ConvertGateway(co, id)
      [] stage = "route" -> ConvertHTTPRoute(co, id)
      [] stage = "canary" -> ApplyCanaryIngress(co, id)
      [] stage = "defaultBackend" -> ApplyDefaultBackend(co, id)
      [] stage = "trafficPolicy" -> ConvertTrafficPolicy(co, id)

RECURSIVE ForEachConfig(_, _, _, _, _)
\* The conversion loops (lines 256-268, 307-319, 342-354, 476-488,
\* 691-702): an object whose cluster has no registered controller is
\* skipped, an error of the adapter is logged and the loop goes on.
ForEachConfig(stage, co, configs, idx, controllers) ==
    IF idx > Len(configs) THEN co
    ELSE LET id == configs[idx]
         IN  IF Ingress[id].cluster \notin controllers
             THEN ForEachConfig(stage, co, configs, idx + 1, controllers)
             ELSE ForEachConfig(stage, AdapterCall(stage, Handed(co, stage, id), id),
                                configs, idx + 1, controllers)

\* Lines 685-703.
applyCanaryIngresses(co, controllers) ==
    IF Len(co.CanaryIngresses) = 0 THEN co
    ELSE ForEachConfig("canary", co, co.CanaryIngresses, 1, controllers)

\* The accumulator after the calls of normalizeWeightedCluster, res[h][i]
\* being what the call for the i-th route of host h returned.
Normalized(co, res) ==
    [co EXCEPT
       !.HTTPRoutes = [h \in DOMAIN @ |->
                         [i \in DOMAIN @[h] |-> [@[h][i] EXCEPT !.dests = res[h][i].dests]]],
       !.IngressRouteCache =
           UNION {{[name |-> co.HTTPRoutes[h][i].name, host |-> co.HTTPRoutes[h][i].host,
                    dests |-> res[h][i].dests] :
                      i \in {j \in DOMAIN res[h] : res[h][j].updated}} : h \in DOMAIN res},
       !.panic = \E h \in DOMAIN res : \E i \in DOMAIN res[h] : res[h][i].panic]

\* Lines 333-338.
NormalizeRoutes(co, nan) ==
    Normalized(co, [h \in DOMAIN co.HTTPRoutes |->
                      [i \in DOMAIN co.HTTPRoutes[h] |->
                         normalizeWeightedCluster(co.HTTPRoutes[h][i], nan)]])

\* Lines 534-560.
AppRootRoute(host, wrapVS) ==
    [name |-> <<host, "app-root">>, host |-> host, path |-> "/",
     dests |-> <<>>, weightTotal |-> 0,
     obj |-> wrapVS.obj, cluster |-> Ingress[wrapVS.obj].cluster,
     marker |-> FALSE, redirect |-> wrapVS.appRoot, redirectCode |-> 302]

\* Lines 534-560 with the operands of the append of line 557 exchanged.
applyAppRoot_Appends(co) ==
    [co EXCEPT !.HTTPRoutes =
        [h \in (DOMAIN @) \cup {x \in DOMAIN co.VirtualServices :
                                     co.VirtualServices[x].appRoot # ""} |->
            IF h \in DOMAIN co.VirtualServices /\ co.VirtualServices[h].appRoot # ""
            THEN Append(Get(@, h), AppRootRoute(h, co.VirtualServices[h]))
            ELSE @[h]]]

applyAppRoot(co) ==
    LET hosts == {h \in DOMAIN co.VirtualServices : co.VirtualServices[h].appRoot # ""}
    IN  [co EXCEPT !.HTTPRoutes =
            [h \in (DOMAIN @) \cup hosts |->
                IF h \in hosts
                THEN <<AppRootRoute(h, co.VirtualServices[h])>> \o Get(@, h)
                ELSE @[h]]]

\* Lines 573-614: the companion route of a route with a fallback target.
FallbackRoute(route) ==
    LET fb == Ingress[route.obj]
    IN  [route EXCEPT
           !.name = Append(@, "fallback"),
           !.marker = FALSE,
           !.path = "/",
           !.dests = <<[svc |-> fb.fallback, weight |-> 100]>>]

RECURSIVE RedirectRoutes(_, _, _)
RECURSIVE RedirectRoutes_IgnoresMissingFallback(_, _, _)
\* Lines 564-616 without the test of lines 568-570.
RedirectRoutes_IgnoresMissingFallback(routes, i, tempRoutes) ==
    IF i > Len(routes) THEN tempRoutes
    ELSE IF routes[i].marker
         THEN RedirectRoutes_IgnoresMissingFallback(
                  routes, i + 1, <<FallbackRoute(routes[i])>> \o Append(tempRoutes, routes[i]))
         ELSE RedirectRoutes_IgnoresMissingFallback(routes, i + 1, Append(tempRoutes, routes[i]))

\* Lines 564-616: the loop over the routes of one host.
RedirectRoutes(routes, i, tempRoutes) ==
    IF i > Len(routes) THEN tempRoutes
    ELSE LET route == routes[i]
             temp == Append(tempRoutes, route)
         IN  IF route.marker /\ Ingress[route.obj].fallback # ""
             THEN RedirectRoutes(routes, i + 1, <<FallbackRoute(route)>> \o temp)
             ELSE RedirectRoutes(routes, i + 1, temp)

\* Lines 562-619.
applyInternalActiveRedirect(co) ==
    [co EXCEPT !.HTTPRoutes = [h \in DOMAIN @ |-> RedirectRoutes(@[h], 1, <<>>)]]

\* Lines 328-331: the canary ingresses are applied when some listed object
\* is not a canary.
CanaryStage(co, configs, controllers) ==
    IF Len(configs) > Len(co.CanaryIngresses)
    THEN applyCanaryIngresses(co, controllers) ELSE co

\* Lines 340-354.
DefaultBackendStage(co, configs, controllers) ==
    IF co.HasDefaultBackend
    THEN ForEachConfig("defaultBackend", co, configs, 1, controllers) ELSE co

\* Lines 340-366: the default backend, the app-root redirect and the
\* fallback routes.  A panic of the normalization loop leaves none of it.
RouteFeatures(co, configs, controllers) ==
    IF co.panic THEN co
    ELSE applyInternalActiveRedirect(applyAppRoot(DefaultBackendStage(co, configs, controllers)))

\* convertVirtualService up to the commit of the route cache
\* (lines 298-366).
DeriveRoutes(configs, controllers, nan) ==
    RouteFeatures(
        NormalizeRoutes(
            CanaryStage(ForEachConfig("route", NewConvertOptions, configs, 1, controllers),
                        configs, controllers),
            nan),
        configs, controllers)

\* Lines 379-410 without the test of line 384.
VirtualServiceOf_AlwaysGlobal(host, routes) ==
    LET cleanHost == CleanHost(host)
        firstRoute == routes[1]
    IN  [kind |-> "VirtualService",
         name |-> <<IstioIngressGatewayName, Ingress[firstRoute.obj].ns,
                    Ingress[firstRoute.obj].name, cleanHost>>,
         namespace |-> EngineNamespace,
         cluster |-> firstRoute.cluster,
         gateways |-> <<<<EngineNamespace, EngineClusterId, cleanHost>>,
                        <<IstioIngressGatewayName, cleanHost>>, GlobalGatewayName>>,
         http |-> routes]

\* Lines 379-410: the virtual service of one host.
VirtualServiceOf(host, routes) ==
    LET cleanHost == CleanHost(host)
        firstRoute == routes[1]
        gateways == <<<<EngineNamespace, EngineClusterId, cleanHost>>,
                      <<IstioIngressGatewayName, cleanHost>>>>
    IN  [kind |-> "VirtualService",
         name |-> <<IstioIngressGatewayName, Ingress[firstRoute.obj].ns,
                    Ingress[firstRoute.obj].name, cleanHost>>,
         namespace |-> EngineNamespace,
         cluster |-> firstRoute.cluster,
         gateways |-> IF host # "*" THEN Append(gateways, GlobalGatewayName) ELSE gateways,
         http |-> routes]

RECURSIVE AssembleVirtualServices(_, _, _, _)
\* Lines 373-411, visiting the hosts in the given order.  A host with
\* routes and no entry in VirtualServices leaves wrapperVS nil, and
\* line 392 dereferences it.
AssembleVirtualServices(co, order, i, out) ==
    IF i > Len(order) THEN [panic |-> FALSE, out |-> out]
    ELSE LET host == order[i]
             routes == co.HTTPRoutes[host]
         IN  IF Len(routes) = 0
             THEN AssembleVirtualServices(co, order, i + 1, out)
             ELSE IF host \notin DOMAIN co.VirtualServices
             THEN [panic |-> TRUE, out |-> <<>>]
             ELSE AssembleVirtualServices(co, order, i + 1,
                                          Append(out, VirtualServiceOf(host, routes)))

RECURSIVE RoutesInOrder(_, _, _)
\* The routes of all hosts, the hosts visited in the given order
\* (lines 423-424).
RoutesInOrder(co, order, i) ==
    IF i > Len(order) THEN <<>>
    ELSE co.HTTPRoutes[order[i]] \o RoutesInOrder(co, order, i + 1)

\* Line 425 without the test.
HasAppRootSuffix_Never(name) == FALSE

\* Line 425: strings.HasSuffix(route.HTTPRoute.Name, "app-root").
HasAppRootSuffix(name) == name[Len(name)] = "app-root"

AuthOf(route) ==
    LET o == Ingress[route.obj]
    IN  [secret |-> <<o.cluster, o.ns, o.authSecret>>, realm |-> o.authRealm]

RECURSIVE AuthMappings(_, _, _)
\* Lines 425-444: the rules by (secret, realm) key.
AuthMappings(routes, i, mappings) ==
    IF i > Len(routes) THEN mappings
    ELSE LET route == routes[i]
             key == AuthOf(route)
         IN  IF HasAppRootSuffix(route.name) \/ Ingress[route.obj].authSecret = ""
             THEN AuthMappings(routes, i + 1, mappings)
             ELSE IF key \notin DOMAIN mappings
             THEN AuthMappings(routes, i + 1,
                      Put(mappings, key,
                          [Realm |-> key.realm, MatchRoute |-> <<route.name>>,
                           Credentials |-> key.secret, Encrypted |-> TRUE]))
             ELSE AuthMappings(routes, i + 1,
                      [mappings EXCEPT ![key].MatchRoute = Append(@, route.name)])

\* Lines 753-785: the filter patch that wraps the serialized rule set.
BasicAuthEnvoyFilter(rules) ==
    [kind |-> "EnvoyFilter",
     name |-> <<IstioIngressGatewayName, "basic-auth">>,
     namespace |-> EngineNamespace,
     rules |-> rules]

\* Lines 419-461: the filter list of the pass; hostOrder and ruleOrder are
\* the orders in which the two range statements visit their maps, and
\* serialized tells whether constructBasicAuthEnvoyFilter returned no error.
EnvoyFiltersOf(mappings, ruleOrder, serialized) ==
    IF Cardinality(DOMAIN mappings) > 0 /\ serialized
    THEN <<BasicAuthEnvoyFilter([i \in DOMAIN ruleOrder |-> mappings[ruleOrder[i]]])>>
    ELSE <<>>

BasicAuthMappings(co, hostOrder) ==
    AuthMappings(RoutesInOrder(co, hostOrder, 1), 1, EmptyMap)

\* Lines 208-248 with the secrets of the pass added to the set in place.
createWrapperConfigs_KeepsOldSecrets(configs) ==
    watchedSecretSet \cup
    {<<Ingress[configs[i]].cluster, Ingress[configs[i]].ns, Ingress[configs[i]].authSecret>> :
        i \in {j \in DOMAIN configs : Ingress[configs[j]].authSecret # ""}}

\* Lines 208-248: the secrets the parsers record for the objects of the
\* pass (an auth annotation names its credential secret).
createWrapperConfigs(configs) ==
    {<<Ingress[configs[i]].cluster, Ingress[configs[i]].ns, Ingress[configs[i]].authSecret>> :
        i \in {j \in DOMAIN configs : Ingress[configs[j]].authSecret # ""}}

\* Lines 250-273: the accumulator of a gateway pass.
DeriveGateways(configs, controllers) ==
    ForEachConfig("gateway", NewConvertOptions, configs, 1, controllers)

\* Lines 279-295, visiting the gateways in the given order.
GatewaysOut(co, order) ==
    [i \in DOMAIN order |->
        LET gateway == co.Gateways[order[i]]
        IN  [kind |-> "Gateway",
             name |-> <<IstioIngressGatewayName, CleanHost(gateway.host)>>,
             namespace |-> EngineNamespace,
             cluster |-> gateway.cluster,
             host |-> gateway.host]]

\* Lines 470-494: the accumulator of a traffic policy pass.
DeriveTrafficPolicies(configs, controllers) ==
    ForEachConfig("trafficPolicy", NewConvertOptions, configs, 1, controllers)

ServiceFQDN(key) == <<key.name, key.ns, "svc.cluster.local">>

RECURSIVE MergeDestinationRules_Overwrites(_, _, _, _)
\* Lines 497-517 with the list of line 513 replaced, not appended to.
MergeDestinationRules_Overwrites(co, order, i, destinationRules) ==
    IF i > Len(order) THEN destinationRules
    ELSE LET key == order[i]
             policy == co.Service2TrafficPolicy[key]
             serviceName == ServiceFQDN(key)
             dr == [host |-> serviceName, portLevelSettings |-> <<policy.port>>,
                    obj |-> policy.obj, key |-> key]
         IN  MergeDestinationRules_Overwrites(co, order, i + 1,
                                              Put(destinationRules, serviceName, dr))

RECURSIVE MergeDestinationRules(_, _, _, _)
\* Lines 497-517, visiting the keys of Service2TrafficPolicy in the given
\* order.
MergeDestinationRules(co, order, i, destinationRules) ==
    IF i > Len(order) THEN destinationRules
    ELSE LET key == order[i]
             policy == co.Service2TrafficPolicy[key]
             serviceName == ServiceFQDN(key)
             dr == IF serviceName \notin DOMAIN destinationRules
                   THEN [host |-> serviceName, portLevelSettings |-> <<policy.port>>,
                         obj |-> policy.obj, key |-> key]
                   ELSE [destinationRules[serviceName] EXCEPT
                           !.portLevelSettings = Append(@, policy.port)]
         IN  MergeDestinationRules(co, order, i + 1, Put(destinationRules, serviceName, dr))

\* Lines 519-531, visiting the destination rules in the given order.
DestinationRulesOut(destinationRules, order) ==
    [i \in DOMAIN order |->
        LET dr == destinationRules[order[i]]
        IN  [kind |-> "DestinationRule",
             name |-> <<IstioIngressGatewayName, EngineClusterId, dr.key.ns, dr.key.name>>,
             namespace |-> EngineNamespace,
             host |-> dr.host,
             portLevelSettings |-> dr.portLevelSettings]]

(***************************************************************************)
(* The state after NewIngressConfig (lines 85-100): no controller, empty   *)
(* caches, an empty watched-secret set, no call in progress.               *)
(***************************************************************************)
\* The threads that may call into the engine; a specification's initial
\* condition says which of them exist (DOMAIN thr).
Threads == {"t1", "t2"}

Idle ==
    [pc |-> "idle", op |-> "", typ |-> "", ns |-> "", secret |-> <<>>,
     configs |-> <<>>, co |-> <<>>, err |-> "", val |-> <<>>, filterErr |-> FALSE,
     hit |-> FALSE, pushed |-> <<>>, isSynced |-> FALSE,
     clusterId |-> "", at |-> 0]

\* The lock with no holder.
Unlocked == [writer |-> "", readers |-> {}]

SupportedKinds == {"Gateway", "VirtualService", "DestinationRule", "EnvoyFilter"}

\* No handler registered anywhere, no cluster initialized.
InitHandlers ==
    /\ handlers = [kind \in SupportedKinds |-> <<>>]
    /\ adapterHandlers = [c \in Clusters |-> [kind \in SupportedKinds |-> <<>>]]
    /\ initialized = {}
    /\ registered = <<>>

\* No annotation parser called.
InitParseIdle ==
    /\ annotations = <<>>
    /\ config = <<>>
    /\ pPc = "idle"
    /\ gGateway = <<>>
    /\ gResult = <<>>

InitEngine ==
    /\ InitHandlers
    /\ mutex = Unlocked
    /\ synced = {}
    /\ remoteIngressControllers = {}
    /\ watchedSecretSet = {}
    /\ ingressRouteCache = {}
    /\ ingressDomainCache = {}
    /\ cachedEnvoyFilters = <<>>

InitNormIdle ==
    /\ InitParseIdle
    /\ sCo = NewConvertOptions
    /\ sResult = NewConvertOptions
    /\ sPc = "idle"
    /\ nRoute = [dests |-> <<>>, weightTotal |-> 0]
    /\ nResult = [panic |-> FALSE, updated |-> FALSE, dests |-> <<>>]
    /\ nPc = "idle"

(***************************************************************************)
(* SpecNorm: normalizeWeightedCluster applied to every route of the input  *)
(* space.                                                                  *)
(***************************************************************************)
SvcOf(i) == <<"s1", "s2", "s3", "s4", "s5">>[i]

WeightSeqs == UNION {[1..n -> DeclaredWeights] : n \in 0..MaxDests}

NormInputs ==
    {[dests |-> [i \in 1..Len(ws) |-> [svc |-> SvcOf(i), weight |-> ws[i]]],
      weightTotal |-> wt] : ws \in WeightSeqs, wt \in RouteWeightTotals}

InitNorm ==
    /\ InitEngine
    /\ thr = [t \in {"t1"} |-> Idle]
    /\ store = {}
    /\ runs = <<>>
    /\ nRoute \in NormInputs
    /\ InitParseIdle
    /\ sCo = NewConvertOptions
    /\ sResult = NewConvertOptions
    /\ sPc = "idle"
    /\ nResult = [panic |-> FALSE, updated |-> FALSE, dests |-> <<>>]
    /\ nPc = "call"

Normalize ==
    /\ nPc = "call"
    /\ \E nan \in NaNToInt32 :
         nResult' = normalizeWeightedCluster(nRoute, nan)
    /\ nPc' = "done"
    /\ UNCHANGED <<nRoute, store, synced, engineVars, thr, runs, spliceVars, parserVars, handlerVars>>

NextNorm == Normalize

SpecNorm == InitNorm /\ [][NextNorm]_vars

(***************************************************************************)
(* Spec: the engine under concurrent callers.  A call is cut where the     *)
(* code takes or releases the lock; the code between two lock operations   *)
(* works on the caller's locals only and is part of the step before.       *)
(***************************************************************************)
ListKinds == SupportedKinds \cup {"ServiceEntry"}
Namespaces == {"", "ns"}
Mutations == {"Create", "Update", "UpdateStatus", "Patch", "Delete"}
SecretNames == {<<"c1", "ns", "sec1">>, <<"c1", "ns", "sec2">>}

\* A nil pointer dereference ends the process.
Crashed == \E t \in DOMAIN thr : thr[t].pc = "panic"

CanCall(t) == thr[t].pc = "idle" /\ ~Crashed

\* controller.List() of every registered controller (lines 186-190).
Listed == {id \in store : Ingress[id].cluster \in remoteIngressControllers}

\* The informers: an ingress appears in, or disappears from, its cluster.
AddIngress(id) ==
    /\ ~Crashed
    /\ id \in (1..StoreObjs) \ store
    /\ store' = store \cup {id}
    /\ UNCHANGED <<synced, engineVars, thr, runs, normVars, spliceVars, parserVars, handlerVars>>

RemoveIngress(id) ==
    /\ ~Crashed
    /\ id \in store
    /\ store' = store \ {id}
    /\ UNCHANGED <<synced, engineVars, thr, runs, normVars, spliceVars, parserVars, handlerVars>>

\* Lines 128-142.
AddLocalCluster(clusterId) ==
    /\ ~Crashed
    /\ clusterId \notin remoteIngressControllers
    /\ remoteIngressControllers' = remoteIngressControllers \cup {clusterId}
    /\ UNCHANGED <<mutex, store, synced, watchedSecretSet, ingressRouteCache, ingressDomainCache,
                   cachedEnvoyFilters, thr, runs, normVars, spliceVars, parserVars, handlerVars>>

\* Lines 165-176 without the namespace test of lines 173-176.
ListRejects_AnyNamespace(typ, ns) == typ \notin SupportedKinds

\* Lines 165-176.
ListRejects(typ, ns) == typ \notin SupportedKinds \/ ns # ""

\* Lines 164-176: List of an unsupported kind or of one namespace.
ListUnsupported(t, typ, ns) ==
    /\ CanCall(t)
    /\ ListRejects(typ, ns)
    /\ thr' = [thr EXCEPT ![t] = [Idle EXCEPT !.pc = "done", !.op = "List", !.typ = typ,
                                              !.ns = ns, !.err = "ErrUnsupportedOp"]]
    /\ UNCHANGED <<store, synced, engineVars, runs, normVars, spliceVars, parserVars, handlerVars>>

\* Lines 178-183.
ListEnvoyFilter(t, ns) ==
    /\ CanCall(t)
    /\ ~ListRejects("EnvoyFilter", ns)
    /\ thr' = [thr EXCEPT ![t] = [Idle EXCEPT !.pc = "done", !.op = "List",
                                              !.typ = "EnvoyFilter", !.ns = ns,
                                              !.val = cachedEnvoyFilters]]
    /\ UNCHANGED <<store, synced, engineVars, runs, normVars, spliceVars, parserVars, handlerVars>>

\* Lines 185-192: the pass lists the objects of every controller.
ListConfigs(t, typ, ns) ==
    /\ CanCall(t)
    /\ typ # "EnvoyFilter"
    /\ ~ListRejects(typ, ns)
    /\ thr' = [thr EXCEPT ![t] = [Idle EXCEPT !.pc = "wrap", !.op = "List", !.typ = typ,
                                              !.ns = ns,
                                              !.configs = SortIngressByCreationTime(Listed)]]
    /\ UNCHANGED <<store, synced, engineVars, runs, normVars, spliceVars, parserVars, handlerVars>>

\* Lines 208-248: the wrapper configs, and the watched-secret set replaced.
CreateWrapperConfigs(t) ==
    /\ thr[t].pc = "wrap" /\ ~Crashed
    /\ watchedSecretSet' = createWrapperConfigs(thr[t].configs)
    /\ thr' = [thr EXCEPT ![t].pc = "convert"]
    /\ UNCHANGED <<mutex, store, synced, remoteIngressControllers, ingressRouteCache, ingressDomainCache,
                   cachedEnvoyFilters, runs, normVars, spliceVars, parserVars, handlerVars>>

\* Lines 250-296.
ConvertGateways(t) ==
    /\ thr[t].pc = "convert" /\ thr[t].typ = "Gateway" /\ ~Crashed
    /\ \E co \in {DeriveGateways(thr[t].configs, remoteIngressControllers)} :
           /\ ingressDomainCache' = co.IngressDomainCache
           /\ \E order \in Orders(DOMAIN co.Gateways) :
                thr' = [thr EXCEPT ![t].pc = "done", ![t].val = GatewaysOut(co, order)]
    /\ UNCHANGED <<mutex, store, synced, remoteIngressControllers, watchedSecretSet, ingressRouteCache,
                   cachedEnvoyFilters, runs, normVars, spliceVars, parserVars, handlerVars>>

\* Lines 298-370: the routes derived and the route cache replaced.
ConvertVirtualService(t) ==
    /\ thr[t].pc = "convert" /\ thr[t].typ = "VirtualService" /\ ~Crashed
    /\ \E nan \in NaNToInt32 :
         \E co \in {DeriveRoutes(thr[t].configs, remoteIngressControllers, nan)} :
             IF co.panic
             THEN /\ thr' = [thr EXCEPT ![t].pc = "panic"]
                  /\ UNCHANGED ingressRouteCache
             ELSE /\ thr' = [thr EXCEPT ![t].pc = "assemble", ![t].co = co]
                  /\ ingressRouteCache' = co.IngressRouteCache
    /\ UNCHANGED <<mutex, store, synced, remoteIngressControllers, watchedSecretSet, ingressDomainCache,
                   cachedEnvoyFilters, runs, normVars, spliceVars, parserVars, handlerVars>>

\* Lines 299-304 with the options kept in one place for all callers.
convertOptions_Shared(t) == thr[CHOOSE u \in DOMAIN thr : thr[u].pc = "assemble"].co

\* Lines 299-304: convertOptions is a local of the call, maps included.
convertOptions(t) == thr[t].co

\* Lines 372-417 and 419-468: the virtual services assembled, the filter
\* list derived and the filter cache replaced.
AssembleVirtualService(t) ==
    /\ thr[t].pc = "assemble" /\ ~Crashed
    /\ \E co \in {convertOptions(t)} :
           \E hostOrder \in Orders(DOMAIN co.HTTPRoutes) :
             \E res \in {AssembleVirtualServices(co, hostOrder, 1, <<>>)} :
                 IF res.panic
                 THEN /\ thr' = [thr EXCEPT ![t].pc = "panic"]
                      /\ UNCHANGED cachedEnvoyFilters
                 ELSE \E filterOrder \in Orders(DOMAIN co.HTTPRoutes) :
                        \E mappings \in {BasicAuthMappings(co, filterOrder)} :
                            \E ruleOrder \in Orders(DOMAIN mappings), serialized \in BOOLEAN :
                              /\ cachedEnvoyFilters' = EnvoyFiltersOf(mappings, ruleOrder, serialized)
                              /\ thr' = [thr EXCEPT
                                           ![t].pc = "done", ![t].val = res.out,
                                           ![t].co = <<>>,
                                           ![t].filterErr = (DOMAIN mappings # {} /\ ~serialized)]
    /\ UNCHANGED <<mutex, store, synced, remoteIngressControllers, watchedSecretSet, ingressRouteCache,
                   ingressDomainCache, runs, normVars, spliceVars, parserVars, handlerVars>>

\* Lines 470-532.
ConvertDestinationRule(t) ==
    /\ thr[t].pc = "convert" /\ thr[t].typ = "DestinationRule" /\ ~Crashed
    /\ \E co \in {DeriveTrafficPolicies(thr[t].configs, remoteIngressControllers)} :
           \E keyOrder \in Orders(DOMAIN co.Service2TrafficPolicy) :
             \E destinationRules \in {MergeDestinationRules(co, keyOrder, 1, EmptyMap)} :
                 \E order \in Orders(DOMAIN destinationRules) :
                   thr' = [thr EXCEPT ![t].pc = "done",
                                      ![t].val = DestinationRulesOut(destinationRules, order)]
    /\ UNCHANGED <<store, synced, engineVars, runs, normVars, spliceVars, parserVars, handlerVars>>

\* Lines 808-812.
GetIngressRoutes(t) ==
    /\ CanCall(t)
    /\ thr' = [thr EXCEPT ![t] = [Idle EXCEPT !.pc = "done", !.op = "GetIngressRoutes",
                                              !.val = ingressRouteCache]]
    /\ UNCHANGED <<store, synced, engineVars, runs, normVars, spliceVars, parserVars, handlerVars>>

\* Lines 814-818.
GetIngressDomains(t) ==
    /\ CanCall(t)
    /\ thr' = [thr EXCEPT ![t] = [Idle EXCEPT !.pc = "done", !.op = "GetIngressDomains",
                                              !.val = ingressDomainCache]]
    /\ UNCHANGED <<store, synced, engineVars, runs, normVars, spliceVars, parserVars, handlerVars>>

\* Lines 641-642 without the push of line 642.
PushKinds_RouteOnly == <<"VirtualService">>

\* Lines 641-642: the kinds pushed, in order.
PushKinds == <<"VirtualService", "EnvoyFilter">>

\* Lines 631-639: one call of XDSUpdater.ConfigUpdate.
PushRequest(kind, secret) ==
    [Full |-> TRUE,
     ConfigsUpdated |-> {[Kind |-> kind, Name |-> secret[3], Namespace |-> secret[2]]},
     Reason |-> "auth-secret-change"]

\* Lines 621-629: the membership check under the read lock.
ReflectSecretChanges(t, secret) ==
    /\ CanCall(t)
    /\ LET hit == secret \in watchedSecretSet
       IN  thr' = [thr EXCEPT ![t] = [Idle EXCEPT !.pc = IF hit THEN "push" ELSE "done",
                                                  !.op = "ReflectSecretChanges",
                                                  !.secret = secret, !.hit = hit]]
    /\ UNCHANGED <<store, synced, engineVars, runs, normVars, spliceVars, parserVars, handlerVars>>

\* Lines 630-642: the next push of a hit.
Push(t) ==
    /\ thr[t].pc = "push" /\ ~Crashed
    /\ LET n == Len(thr[t].pushed) + 1
       IN  thr' = [thr EXCEPT
                     ![t].pushed = Append(@, PushRequest(PushKinds[n], thr[t].secret)),
                     ![t].pc = IF n = Len(PushKinds) THEN "done" ELSE "push"]
    /\ UNCHANGED <<store, synced, engineVars, runs, normVars, spliceVars, parserVars, handlerVars>>

\* The informers of a registered controller finish their first listing;
\* from then on the controller reports synced.
SyncCluster(clusterId) ==
    /\ ~Crashed
    /\ clusterId \in remoteIngressControllers \ synced
    /\ synced' = synced \cup {clusterId}
    /\ UNCHANGED <<store, engineVars, thr, runs, normVars, spliceVars, parserVars, handlerVars>>

\* Lines 793-800 without the test of line 794.
AllSynced_IgnoresControllers(order, i) == TRUE

RECURSIVE AllSynced(_, _)
\* Lines 793-800: the loop over the registry, visited in the given order.
AllSynced(order, i) ==
    IF i > Len(order) THEN TRUE
    ELSE IF order[i] \notin synced THEN FALSE
    ELSE AllSynced(order, i + 1)

\* Lines 790-801.
HasSynced(t) ==
    /\ CanCall(t)
    /\ \E order \in Orders(remoteIngressControllers) :
         thr' = [thr EXCEPT ![t] = [Idle EXCEPT !.pc = "done", !.op = "HasSynced",
                                                !.isSynced = AllSynced(order, 1)]]
    /\ UNCHANGED <<store, synced, engineVars, runs, normVars, spliceVars, parserVars, handlerVars>>

\* Lines 828-846 with a Delete that returns nil.
MutationError_DeleteSucceeds(op) == IF op = "Delete" THEN "" ELSE "ErrUnsupportedOp"

\* Lines 828-846: what Create, Update, UpdateStatus, Patch and Delete return.
MutationError(op) == "ErrUnsupportedOp"

\* Lines 828-846.
Mutate(t, op) ==
    /\ CanCall(t)
    /\ thr' = [thr EXCEPT ![t] = [Idle EXCEPT !.pc = "done", !.op = op,
                                              !.err = MutationError(op)]]
    /\ UNCHANGED <<store, synced, engineVars, runs, normVars, spliceVars, parserVars, handlerVars>>

\* The caller takes the result.
Return(t) ==
    /\ thr[t].pc = "done" /\ ~Crashed
    /\ thr' = [thr EXCEPT ![t] = Idle]
    /\ UNCHANGED <<store, synced, engineVars, runs, normVars, spliceVars, parserVars, handlerVars>>

\* One caller.
Init ==
    /\ InitEngine
    /\ InitNormIdle
    /\ thr = [t \in {"t1"} |-> Idle]
    /\ store = {}
    /\ runs = <<>>

Environment ==
    \/ \E id \in 1..StoreObjs : AddIngress(id)
    \/ \E id \in 1..StoreObjs : RemoveIngress(id)
    \/ \E c \in Clusters : AddLocalCluster(c)

Passes ==
    \/ \E t \in DOMAIN thr, typ \in ListKinds, ns \in Namespaces : ListConfigs(t, typ, ns)
    \/ \E t \in DOMAIN thr : CreateWrapperConfigs(t)
    \/ \E t \in DOMAIN thr : ConvertGateways(t)
    \/ \E t \in DOMAIN thr : ConvertVirtualService(t)
    \/ \E t \in DOMAIN thr : AssembleVirtualService(t)
    \/ \E t \in DOMAIN thr : ConvertDestinationRule(t)
    \/ \E t \in DOMAIN thr : Return(t)

Readers ==
    \/ \E t \in DOMAIN thr, ns \in Namespaces : ListEnvoyFilter(t, ns)
    \/ \E t \in DOMAIN thr : GetIngressRoutes(t)
    \/ \E t \in DOMAIN thr : GetIngressDomains(t)

Next ==
    \/ Environment
    \/ Passes
    \/ Readers
    \/ \E t \in DOMAIN thr, typ \in ListKinds, ns \in Namespaces : ListUnsupported(t, typ, ns)
    \/ \E t \in DOMAIN thr, secret \in SecretNames : ReflectSecretChanges(t, secret)
    \/ \E t \in DOMAIN thr : Push(t)
    \/ \E t \in DOMAIN thr, op \in Mutations : Mutate(t, op)
    \/ \E c \in Clusters : SyncCluster(c)
    \/ \E t \in DOMAIN thr : HasSynced(t)

Spec == Init /\ [][Next]_vars

\* Two callers: passes and readers interleave.
InitConc ==
    /\ InitEngine
    /\ InitNormIdle
    /\ thr = [t \in Threads |-> Idle]
    /\ store = {}
    /\ runs = <<>>

\* The kinds whose passes fill the route and domain tables.
TableKinds == {"Gateway", "VirtualService"}

NextConc ==
    \/ Environment
    \/ \E t \in DOMAIN thr, typ \in TableKinds : ListConfigs(t, typ, "")
    \/ \E t \in DOMAIN thr : CreateWrapperConfigs(t)
    \/ \E t \in DOMAIN thr : ConvertGateways(t)
    \/ \E t \in DOMAIN thr : ConvertVirtualService(t)
    \/ \E t \in DOMAIN thr : AssembleVirtualService(t)
    \/ \E t \in DOMAIN thr : GetIngressRoutes(t)
    \/ \E t \in DOMAIN thr : GetIngressDomains(t)
    \/ \E t \in DOMAIN thr : Return(t)

SpecConc == InitConc /\ [][NextConc]_vars

(***************************************************************************)
(* SpecPass: whole passes, one after the other, over a fixed object set    *)
(* and a fixed adapter registry.  Each action is one call of List from     *)
(* entry to return (lines 164-206); runs keeps what each call did.         *)
(***************************************************************************)
ObjectSets == {S \in SUBSET IngressIds : Cardinality(S) \in 1..MaxObjs}
Registries == {{EngineClusterId}, Clusters}

\* The hosts with a non-empty route list and no entry in VirtualServices.
HostsWithoutFeatures(co) ==
    {h \in DOMAIN co.HTTPRoutes :
        Len(co.HTTPRoutes[h]) > 0 /\ h \notin DOMAIN co.VirtualServices}

\* What one call of List did: its kind, the objects it listed, whether it
\* panicked, the list it returned, and the log of its conversion loops.
Run(typ, configs, co, panic, val, filterErr) ==
    [typ |-> typ, configs |-> configs, panic |-> panic, val |-> val,
     filters |-> cachedEnvoyFilters', filterErr |-> filterErr,
     handed |-> co.handed, errors |-> co.errors,
     canaries |-> co.CanaryIngresses, hasDefaultBackend |-> co.HasDefaultBackend,
     hostsWithoutFeatures |-> HostsWithoutFeatures(co)]

PassEnabled ==
    /\ Len(runs) < MaxRuns
    /\ \A i \in DOMAIN runs : ~runs[i].panic

InitPass ==
    /\ InitNormIdle
    /\ InitHandlers
    /\ thr = [t \in {"t1"} |-> Idle]
    /\ store \in ObjectSets
    /\ remoteIngressControllers \in Registries
    /\ synced = {}
    /\ mutex = Unlocked
    /\ watchedSecretSet = {}
    /\ ingressRouteCache = {}
    /\ ingressDomainCache = {}
    /\ cachedEnvoyFilters = <<>>
    /\ runs = <<>>

\* List(Gateway, "").
ListGateways ==
    /\ PassEnabled
    /\ \E configs \in {SortIngressByCreationTime(Listed)} :
         \E co \in {DeriveGateways(configs, remoteIngressControllers)} :
           /\ watchedSecretSet' = createWrapperConfigs(configs)
           /\ ingressDomainCache' = co.IngressDomainCache
           /\ UNCHANGED <<ingressRouteCache, cachedEnvoyFilters>>
           /\ \E order \in Orders(DOMAIN co.Gateways) :
                runs' = Append(runs, Run("Gateway", configs, co, FALSE,
                                         GatewaysOut(co, order), FALSE))
    /\ UNCHANGED <<mutex, store, synced, remoteIngressControllers, thr, normVars, spliceVars, parserVars, handlerVars>>

\* List(VirtualService, "").
ListVirtualServices ==
    /\ PassEnabled
    /\ \E configs \in {SortIngressByCreationTime(Listed)} :
           /\ watchedSecretSet' = createWrapperConfigs(configs)
           /\ \E nan \in NaNToInt32 :
                \E co \in {DeriveRoutes(configs, remoteIngressControllers, nan)} :
                    IF co.panic
                    THEN /\ UNCHANGED <<ingressRouteCache, cachedEnvoyFilters>>
                         /\ runs' = Append(runs, Run("VirtualService", configs, co, TRUE,
                                                     <<>>, FALSE))
                    ELSE /\ ingressRouteCache' = co.IngressRouteCache
                         /\ \E hostOrder \in Orders(DOMAIN co.HTTPRoutes) :
                              \E res \in {AssembleVirtualServices(co, hostOrder, 1, <<>>)} :
                                  IF res.panic
                                  THEN /\ UNCHANGED cachedEnvoyFilters
                                       /\ runs' = Append(runs,
                                              Run("VirtualService", configs, co, TRUE,
                                                  <<>>, FALSE))
                                  ELSE \E filterOrder \in Orders(DOMAIN co.HTTPRoutes) :
                                         \E mappings \in {BasicAuthMappings(co, filterOrder)} :
                                             \E ruleOrder \in Orders(DOMAIN mappings),
                                                serialized \in BOOLEAN :
                                               /\ cachedEnvoyFilters' =
                                                    EnvoyFiltersOf(mappings, ruleOrder, serialized)
                                               /\ runs' = Append(runs,
                                                    Run("VirtualService", configs, co, FALSE,
                                                        res.out,
                                                        DOMAIN mappings # {} /\ ~serialized))
    /\ UNCHANGED <<mutex, store, synced, remoteIngressControllers, ingressDomainCache, thr, normVars, spliceVars, parserVars, handlerVars>>

\* List(DestinationRule, "").
ListDestinationRules ==
    /\ PassEnabled
    /\ \E configs \in {SortIngressByCreationTime(Listed)} :
         \E co \in {DeriveTrafficPolicies(configs, remoteIngressControllers)} :
           /\ watchedSecretSet' = createWrapperConfigs(configs)
           /\ UNCHANGED <<ingressRouteCache, ingressDomainCache, cachedEnvoyFilters>>
           /\ \E keyOrder \in Orders(DOMAIN co.Service2TrafficPolicy) :
                \E destinationRules \in {MergeDestinationRules(co, keyOrder, 1, EmptyMap)} :
                    \E order \in Orders(DOMAIN destinationRules) :
                      runs' = Append(runs, Run("DestinationRule", configs, co, FALSE,
                                               DestinationRulesOut(destinationRules, order),
                                               FALSE))
    /\ UNCHANGED <<mutex, store, synced, remoteIngressControllers, thr, normVars, spliceVars, parserVars, handlerVars>>

NextPass ==
    \/ ListGateways
    \/ ListVirtualServices
    \/ ListDestinationRules

SpecPass == InitPass /\ [][NextPass]_vars

(***************************************************************************)
(* SpecFilter: the passes of SpecPass and, among them, calls of List for   *)
(* the EnvoyFilter kind.                                                   *)
(***************************************************************************)
\* The calls of List of a behaviour, those for EnvoyFilter included.
MaxFilterRuns == 3

\* Line 182 with a list made anew.
ListedEnvoyFilters_Empty == <<>>

\* Line 182: the list List returns for the EnvoyFilter kind.
ListedEnvoyFilters == cachedEnvoyFilters

\* Lines 164-183: List(EnvoyFilter, ns) for a namespace that passes the
\* test of lines 173-176.
ListEnvoyFilters(ns) ==
    /\ Len(runs) < MaxFilterRuns
    /\ \A i \in DOMAIN runs : ~runs[i].panic
    /\ ~ListRejects("EnvoyFilter", ns)
    /\ UNCHANGED <<watchedSecretSet, ingressRouteCache, ingressDomainCache, cachedEnvoyFilters>>
    /\ runs' = Append(runs, Run("EnvoyFilter", <<>>, NewConvertOptions, FALSE,
                             ListedEnvoyFilters, FALSE))
    /\ UNCHANGED <<mutex, store, synced, remoteIngressControllers, thr, normVars, spliceVars,
                   parserVars, handlerVars>>

NextFilter ==
    \/ ListGateways
    \/ ListVirtualServices
    \/ ListDestinationRules
    \/ \E ns \in Namespaces : ListEnvoyFilters(ns)

SpecFilter == InitPass /\ [][NextFilter]_vars

(***************************************************************************)
(* SpecSplice: applyAppRoot, applyInternalActiveRedirect and the loop that *)
(* assembles the virtual services, applied to every accumulator of the     *)
(* input space: a named host and the wildcard host, each with a list of    *)
(* routes of distinct objects and with or without a feature entry.         *)
(***************************************************************************)
MaxRoutes == 3

SpliceHosts == <<"a.com", "*">>

\* web (plain), api (plain), admin (marker, no fallback target) and shop
\* (marker and fallback target).
RouteObjs == {1, 3, 4, 8}

RouteLists(max) ==
    UNION {{f \in [1..n -> RouteObjs] : \A i, j \in 1..n : f[i] = f[j] => i = j} : n \in 0..max}

\* The feature entry of a host: none, one without app-root, one with.
FeatureChoices == {"none", "", "/app"}

SpliceInput(lists, features) ==
    [NewConvertOptions EXCEPT
       !.HTTPRoutes =
           [h \in {SpliceHosts[k] : k \in DOMAIN SpliceHosts} |->
               LET k == CHOOSE x \in DOMAIN SpliceHosts : SpliceHosts[x] = h
               IN  [i \in DOMAIN lists[k] |-> [NewRoute(lists[k][i]) EXCEPT !.host = h]]],
       !.VirtualServices =
           [h \in {SpliceHosts[k] : k \in {x \in DOMAIN SpliceHosts : features[x] # "none"}} |->
               LET k == CHOOSE x \in DOMAIN SpliceHosts : SpliceHosts[x] = h
               IN  [appRoot |-> features[k],
                    obj |-> IF Len(lists[k]) > 0 THEN lists[k][1] ELSE 1]]]

SpliceInputs ==
    {SpliceInput(<<l1, l2>>, <<f1, f2>>) :
        l1 \in RouteLists(MaxRoutes), l2 \in RouteLists(1),
        f1 \in FeatureChoices, f2 \in FeatureChoices}

InitSplice ==
    /\ InitEngine
    /\ thr = [t \in {"t1"} |-> Idle]
    /\ store = {}
    /\ runs = <<>>
    /\ nRoute = [dests |-> <<>>, weightTotal |-> 0]
    /\ nResult = [panic |-> FALSE, updated |-> FALSE, dests |-> <<>>]
    /\ nPc = "idle"
    /\ sCo \in SpliceInputs
    /\ InitParseIdle
    /\ sResult = NewConvertOptions
    /\ sPc = "call"

ApplyAppRoot ==
    /\ sPc = "call"
    /\ sResult' = applyAppRoot(sCo)
    /\ sPc' = "applyAppRoot"
    /\ UNCHANGED <<store, synced, engineVars, thr, runs, normVars, parserVars, handlerVars, sCo>>

ApplyInternalActiveRedirect ==
    /\ sPc = "call"
    /\ sResult' = applyInternalActiveRedirect(sCo)
    /\ sPc' = "applyInternalActiveRedirect"
    /\ UNCHANGED <<store, synced, engineVars, thr, runs, normVars, parserVars, handlerVars, sCo>>

\* Lines 372-411.
AssembleRoutes ==
    /\ sPc = "call"
    /\ \E hostOrder \in Orders(DOMAIN sCo.HTTPRoutes) :
         sResult' = AssembleVirtualServices(sCo, hostOrder, 1, <<>>)
    /\ sPc' = "assemble"
    /\ UNCHANGED <<store, synced, engineVars, thr, runs, normVars, parserVars, handlerVars, sCo>>

NextSplice ==
    \/ ApplyAppRoot
    \/ ApplyInternalActiveRedirect
    \/ AssembleRoutes

SpecSplice == InitSplice /\ [][NextSplice]_vars

(***************************************************************************)
(* The annotation parsers.  An annotation map takes a key, the pair of a   *)
(* prefix and a name, to a value; a value is the sequence of the tokens of *)
(* its text.  The value of a numeric annotation is the number it spells,   *)
(* as bytes, least significant first: four bytes for a number that fits    *)
(* uint32, more for one that does not, none for an empty text.             *)
(***************************************************************************)
DefaultAnnotationsPrefix == "nginx.ingress.kubernetes.io"
MSEAnnotationsPrefix == "mse.ingress.kubernetes.io"

\* Annotations.HasMSE, HasASAP: the key exists under the prefix(es).
HasMSE(a, name) == <<MSEAnnotationsPrefix, name>> \in DOMAIN a
HasASAP(a, name) == <<DefaultAnnotationsPrefix, name>> \in DOMAIN a \/ HasMSE(a, name)

\* Annotations.ParseStringForMSE: the value under the MSE prefix; an error
\* when the key is missing or the value empty.
ParseStringForMSE(a, name) ==
    IF HasMSE(a, name) /\ a[<<MSEAnnotationsPrefix, name>>] # <<>>
    THEN [err |-> FALSE, val |-> a[<<MSEAnnotationsPrefix, name>>]]
    ELSE [err |-> TRUE, val |-> <<>>]

\* Annotations.ParseStringASAP: the value under the default prefix, else
\* the one under the MSE prefix.
ParseStringASAP(a, name) ==
    IF <<DefaultAnnotationsPrefix, name>> \in DOMAIN a
       /\ a[<<DefaultAnnotationsPrefix, name>>] # <<>>
    THEN [err |-> FALSE, val |-> a[<<DefaultAnnotationsPrefix, name>>]]
    ELSE ParseStringForMSE(a, name)

\* Annotations.ParseUint32ForMSE: an error too when the number does not
\* fit 32 bits.
ParseUint32ForMSE(a, name) ==
    IF ParseStringForMSE(a, name).err \/ Len(ParseStringForMSE(a, name).val) # 4
    THEN [err |-> TRUE, val |-> <<0, 0, 0, 0>>]
    ELSE ParseStringForMSE(a, name)

\* The sum of the products x[i] * y[j] of the bytes with i + j = k + 1.
ColumnSum(x, y, k) ==
    LET Pairs == {i \in DOMAIN x : k + 1 - i \in DOMAIN y}
        Sum[S \in SUBSET Pairs] ==
            IF S = {} THEN 0
            ELSE LET i == CHOOSE e \in S : TRUE
                 IN  x[i] * y[k + 1 - i] + Sum[S \ {i}]
    IN  Sum[Pairs]

RECURSIVE Product(_, _, _, _, _)
\* The bytes k..n of the product of x and y, carry being what the bytes
\* below k carried over.
Product(x, y, k, n, carry) ==
    IF k > n THEN <<>>
    ELSE <<(ColumnSum(x, y, k) + carry) % 256>>
             \o Product(x, y, k + 1, n, (ColumnSum(x, y, k) + carry) \div 256)

\* x * y for uint32 x and y, over the integers: eight bytes.
Mul64(x, y) == Product(x, y, 1, 8, 0)

\* x * y in uint32 (lines 70 and 76 of part_003): the low four bytes.
MulUint32(x, y) == SubSeq(Mul64(x, y), 1, 4)

limitRPM == "route-limit-rpm"
limitRPS == "route-limit-rps"
limitBurstMultiplier == "route-limit-burst-multiplier"
defaultBurstMultiplier == <<5, 0, 0, 0>>
second == 1
minute == 60

\* config.localRateLimit = nil.
NoLocalRateLimit ==
    [nil |-> TRUE, MaxTokens |-> <<0, 0, 0, 0>>, TokensPerFill |-> <<0, 0, 0, 0>>,
     FillInterval |-> 0]

\* Lines 105-108 of part_003.
needLocalRateLimitConfig(a) == HasMSE(a, limitRPM) \/ HasMSE(a, limitRPS)

\* Lines 63-66 of part_003.
BurstMultiplier(a) ==
    IF ParseUint32ForMSE(a, limitBurstMultiplier).err
    THEN defaultBurstMultiplier
    ELSE ParseUint32ForMSE(a, limitBurstMultiplier).val

\* localRateLimit.Parse (lines 54-84 of part_003): the localRateLimit
\* field of the config afterwards.
localRateLimitParse(a, cfg) ==
    IF ~needLocalRateLimitConfig(a) THEN cfg
    ELSE IF ~ParseUint32ForMSE(a, limitRPM).err
    THEN [cfg EXCEPT !.localRateLimit =
            [nil |-> FALSE,
             MaxTokens |-> MulUint32(ParseUint32ForMSE(a, limitRPM).val, BurstMultiplier(a)),
             TokensPerFill |-> ParseUint32ForMSE(a, limitRPM).val,
             FillInterval |-> minute]]
    ELSE IF ~ParseUint32ForMSE(a, limitRPS).err
    THEN [cfg EXCEPT !.localRateLimit =
            [nil |-> FALSE,
             MaxTokens |-> MulUint32(ParseUint32ForMSE(a, limitRPS).val, BurstMultiplier(a)),
             TokensPerFill |-> ParseUint32ForMSE(a, limitRPS).val,
             FillInterval |-> second]]
    ELSE [cfg EXCEPT !.localRateLimit = NoLocalRateLimit]

RECURSIVE SplitTokens(_, _, _, _)
\* strings.Split: the pieces of the text between the separators; i is the
\* token looked at, piece the piece being read.
SplitTokens(v, sep, i, piece) ==
    IF i > Len(v) THEN <<piece>>
    ELSE IF v[i] = sep THEN <<piece>> \o SplitTokens(v, sep, i + 1, <<>>)
    ELSE SplitTokens(v, sep, i + 1, Append(piece, v[i]))

authTLSSecret == "auth-tls-secret"
tlsMinVersion == "tls-min-protocol-version"
tlsMaxVersion == "tls-max-protocol-version"
sslCipher == "ssl-cipher"

\* Lines 57-61 of downstreamtls.go with every text accepted.
isValidTLSProtocolVersion_AcceptsAll(protocol) == TRUE

\* Lines 45-61 of downstreamtls.go: the text is a key of tlsProtocol.
isValidTLSProtocolVersion(protocol) ==
    protocol \in {<<"TLSv1.0">>, <<"TLSv1.1">>, <<"TLSv1.2">>, <<"TLSv1.3">>}

\* security.IsValidCipherSuite of the istio library, on the two suites of
\* the input space that it knows.
IsValidCipherSuite(cipher) ==
    cipher \in {<<"ECDHE-RSA-AES128-GCM-SHA256">>, <<"AES256-SHA">>}

\* util.SplitNamespacedName: "namespace/name", or "name" alone.
SplitNamespacedName(v) ==
    IF Len(SplitTokens(v, "/", 1, <<>>)) = 1
    THEN [Namespace |-> <<>>, Name |-> v]
    ELSE [Namespace |-> SplitTokens(v, "/", 1, <<>>)[1],
          Name |-> SplitTokens(v, "/", 1, <<>>)[2]]

\* config.DownstreamTLS = nil.
NoDownstreamTLS ==
    [nil |-> TRUE, TlsMinVersion |-> <<>>, TlsMaxVersion |-> <<>>, CipherSuites |-> <<>>,
     Mode |-> "SIMPLE", CASecretName |-> [Namespace |-> <<>>, Name |-> <<>>]]

\* Lines 159-164 of downstreamtls.go.
needDownstreamTLS(a) ==
    \/ HasMSE(a, tlsMinVersion)
    \/ HasMSE(a, tlsMaxVersion)
    \/ HasASAP(a, sslCipher)
    \/ HasASAP(a, authTLSSecret)

\* Lines 89-101 of downstreamtls.go: the CA secret and the mode.
WithCASecret(a, cfg, tls) ==
    IF ParseStringASAP(a, authTLSSecret).err
       \/ SplitNamespacedName(ParseStringASAP(a, authTLSSecret).val).Name = <<>>
    THEN tls
    ELSE [tls EXCEPT
            !.Mode = "MUTUAL",
            !.CASecretName =
                IF SplitNamespacedName(ParseStringASAP(a, authTLSSecret).val).Namespace = <<>>
                THEN [Namespace |-> cfg.Namespace,
                      Name |-> SplitNamespacedName(ParseStringASAP(a, authTLSSecret).val).Name]
                ELSE SplitNamespacedName(ParseStringASAP(a, authTLSSecret).val)]

\* Lines 103-111 of downstreamtls.go.
WithVersions(a, tls) ==
    [tls EXCEPT
       !.TlsMinVersion =
           IF ~ParseStringForMSE(a, tlsMinVersion).err
              /\ isValidTLSProtocolVersion(ParseStringForMSE(a, tlsMinVersion).val)
           THEN ParseStringForMSE(a, tlsMinVersion).val ELSE @,
       !.TlsMaxVersion =
           IF ~ParseStringForMSE(a, tlsMaxVersion).err
              /\ isValidTLSProtocolVersion(ParseStringForMSE(a, tlsMaxVersion).val)
           THEN ParseStringForMSE(a, tlsMaxVersion).val ELSE @]

\* Lines 113-123 of downstreamtls.go.
WithCipherSuites(a, tls) ==
    IF ParseStringASAP(a, sslCipher).err THEN tls
    ELSE [tls EXCEPT !.CipherSuites =
            SelectSeq(SplitTokens(ParseStringASAP(a, sslCipher).val, ":", 1, <<>>),
                      IsValidCipherSuite)]

\* downstreamTLS.Parse (lines 77-126 of downstreamtls.go); err is what it
\* returns.
downstreamTLSParse(a, cfg) ==
    IF ~needDownstreamTLS(a) THEN [cfg EXCEPT !.err = ""]
    ELSE [cfg EXCEPT
            !.err = "",
            !.DownstreamTLS =
                WithCipherSuites(a,
                    WithVersions(a,
                        WithCASecret(a, cfg, [NoDownstreamTLS EXCEPT !.nil = FALSE])))]

whitelist == "whitelist-source-range"
blacklist == "blacklist-source-range"
domainWhitelist == "domain-whitelist-source-range"
domainBlacklist == "domain-blacklist-source-range"

\* The addresses of a list: the pieces between the commas, the blanks
\* around them trimmed.
SplitAddresses(v) ==
    [i \in DOMAIN SplitTokens(v, ",", 1, <<>>) |->
        SelectSeq(SplitTokens(v, ",", 1, <<>>)[i], LAMBDA tok : tok # " ")]

NoIPAccessControl == [nil |-> TRUE, isWhite |-> FALSE, remoteIp |-> <<>>]

\* One scope of the access control with the blacklist looked at first.
AccessList_BlacklistFirst(white, black) ==
    IF ~black.err
    THEN [nil |-> FALSE, isWhite |-> FALSE, remoteIp |-> SplitAddresses(black.val)]
    ELSE IF ~white.err
    THEN [nil |-> FALSE, isWhite |-> TRUE, remoteIp |-> SplitAddresses(white.val)]
    ELSE NoIPAccessControl

\* One scope of the access control: the whitelist if there is one, else
\* the blacklist if there is one.
AccessList(white, black) ==
    IF ~white.err
    THEN [nil |-> FALSE, isWhite |-> TRUE, remoteIp |-> SplitAddresses(white.val)]
    ELSE IF ~black.err
    THEN [nil |-> FALSE, isWhite |-> FALSE, remoteIp |-> SplitAddresses(black.val)]
    ELSE NoIPAccessControl

needIPAccessControlConfig(a) ==
    \/ HasASAP(a, whitelist) \/ HasMSE(a, blacklist)
    \/ HasMSE(a, domainWhitelist) \/ HasMSE(a, domainBlacklist)

\* config.IPAccessControl = nil.
NoIPAccessControlConfig ==
    [nil |-> TRUE, Route |-> NoIPAccessControl, Domain |-> NoIPAccessControl]

\* ipAccessControl.Parse.
ipAccessControlParse(a, cfg) ==
    IF ~needIPAccessControlConfig(a) THEN cfg
    ELSE [cfg EXCEPT !.IPAccessControl =
            [nil |-> FALSE,
             Route |-> AccessList(ParseStringASAP(a, whitelist),
                                  ParseStringForMSE(a, blacklist)),
             Domain |-> AccessList(ParseStringForMSE(a, domainWhitelist),
                                   ParseStringForMSE(a, domainBlacklist))]]

\* &Ingress{} of an object in namespace "ns": no feature config.
NewIngress ==
    [Namespace |-> <<"ns">>, err |-> "",
     localRateLimit |-> NoLocalRateLimit, DownstreamTLS |-> NoDownstreamTLS,
     IPAccessControl |-> NoIPAccessControlConfig]

(***************************************************************************)
(* SpecParse: each parser applied to every annotation map of the input     *)
(* space and to the config of a new object.                                *)
(***************************************************************************)
\* The annotation map with the given (key, value) pairs.
Annot(pairs) == [k \in {e[1] : e \in pairs} |-> (CHOOSE e \in pairs : e[1] = k)[2]]

\* The annotation is missing, or has one of the values.
Opt(prefix, name, values) == {{}} \cup {{<<<<prefix, name>>, v>>} : v \in values}

\* An empty text, 1, 100, 65536, 10^9, 2^32 - 1 and 2^32.
RateValues ==
    {<<>>, <<1, 0, 0, 0>>, <<100, 0, 0, 0>>, <<0, 0, 1, 0>>, <<0, 202, 154, 59>>,
     <<255, 255, 255, 255>>, <<0, 0, 0, 0, 1>>}

RateLimitInputs ==
    {Annot(rpm \cup rps \cup mult) :
        rpm \in Opt(MSEAnnotationsPrefix, limitRPM, RateValues),
        rps \in Opt(MSEAnnotationsPrefix, limitRPS, RateValues),
        mult \in Opt(MSEAnnotationsPrefix, limitBurstMultiplier, RateValues)}

TLSInputs ==
    {Annot(min \cup max \cup cipher \cup secret) :
        min \in Opt(MSEAnnotationsPrefix, tlsMinVersion,
                    {<<"TLSv1.0">>, <<"TLSv1.2">>, <<"TLSv1.3">>, <<"TLSv1.4">>,
                     <<"tls1.2">>, <<>>}),
        max \in Opt(MSEAnnotationsPrefix, tlsMaxVersion,
                    {<<"TLSv1.1">>, <<"TLSv1.3">>, <<"SSLv3">>}),
        cipher \in Opt(DefaultAnnotationsPrefix, sslCipher,
                       {<<"ECDHE-RSA-AES128-GCM-SHA256", ":", "RC4">>}),
        secret \in Opt(DefaultAnnotationsPrefix, authTLSSecret,
                       {<<"ns2", "/", "ca">>, <<"ca">>, <<"ns2", "/">>})}

IPAccessControlInputs ==
    {Annot(white \cup black \cup domainWhite \cup domainBlack) :
        white \in Opt(DefaultAnnotationsPrefix, whitelist,
                      {<<"1.1.1.1">>, <<"1.1.1.1", ",", " ", "3.3.3.3">>})
                  \cup Opt(MSEAnnotationsPrefix, whitelist,
                           {<<"1.1.1.1">>, <<"1.1.1.1", ",", " ", "3.3.3.3">>}),
        black \in Opt(MSEAnnotationsPrefix, blacklist, {<<"2.2.2.2">>}),
        domainWhite \in Opt(MSEAnnotationsPrefix, domainWhitelist, {<<"1.1.1.1">>}),
        domainBlack \in Opt(MSEAnnotationsPrefix, domainBlacklist, {<<"2.2.2.2">>})}

\* TestIPAccessControlParse (lines 27-82 of part_002): the annotations of
\* each case and the config the test expects.
TestCases ==
    << [input |-> Annot({}), expect |-> NoIPAccessControlConfig],
       [input |-> Annot({<<<<DefaultAnnotationsPrefix, whitelist>>, <<"1.1.1.1">>>>,
                         <<<<MSEAnnotationsPrefix, blacklist>>, <<"2.2.2.2">>>>}),
        expect |-> [nil |-> FALSE,
                    Route |-> [nil |-> FALSE, isWhite |-> TRUE,
                               remoteIp |-> <<<<"1.1.1.1">>>>],
                    Domain |-> NoIPAccessControl]],
       [input |-> Annot({<<<<MSEAnnotationsPrefix, blacklist>>, <<"2.2.2.2">>>>}),
        expect |-> [nil |-> FALSE,
                    Route |-> [nil |-> FALSE, isWhite |-> FALSE,
                               remoteIp |-> <<<<"2.2.2.2">>>>],
                    Domain |-> NoIPAccessControl]],
       [input |-> Annot({<<<<MSEAnnotationsPrefix, domainWhitelist>>, <<"1.1.1.1">>>>}),
        expect |-> [nil |-> FALSE,
                    Route |-> NoIPAccessControl,
                    Domain |-> [nil |-> FALSE, isWhite |-> TRUE,
                                remoteIp |-> <<<<"1.1.1.1">>>>]]],
       [input |-> Annot({<<<<MSEAnnotationsPrefix, whitelist>>,
                           <<"1.1.1.1", ",", " ", "3.3.3.3">>>>,
                         <<<<MSEAnnotationsPrefix, domainBlacklist>>, <<"2.2.2.2">>>>}),
        expect |-> [nil |-> FALSE,
                    Route |-> [nil |-> FALSE, isWhite |-> TRUE,
                               remoteIp |-> <<<<"1.1.1.1">>, <<"3.3.3.3">>>>],
                    Domain |-> [nil |-> FALSE, isWhite |-> FALSE,
                                remoteIp |-> <<<<"2.2.2.2">>>>]]] >>

InitParse ==
    /\ InitEngine
    /\ thr = [t \in {"t1"} |-> Idle]
    /\ store = {}
    /\ runs = <<>>
    /\ nRoute = [dests |-> <<>>, weightTotal |-> 0]
    /\ nResult = [panic |-> FALSE, updated |-> FALSE, dests |-> <<>>]
    /\ nPc = "idle"
    /\ sCo = NewConvertOptions
    /\ sResult = NewConvertOptions
    /\ sPc = "idle"
    /\ annotations \in RateLimitInputs \cup TLSInputs \cup IPAccessControlInputs
    /\ config = NewIngress
    /\ pPc = "call"
    /\ gGateway = <<>>
    /\ gResult = <<>>

ParseLocalRateLimit ==
    /\ pPc = "call"
    /\ config' = localRateLimitParse(annotations, config)
    /\ pPc' = "localRateLimit"
    /\ UNCHANGED <<store, synced, engineVars, thr, runs, normVars, spliceVars, handlerVars,
                   annotations, gGateway, gResult>>

ParseDownstreamTLS ==
    /\ pPc = "call"
    /\ config' = downstreamTLSParse(annotations, config)
    /\ pPc' = "downstreamTLS"
    /\ UNCHANGED <<store, synced, engineVars, thr, runs, normVars, spliceVars, handlerVars,
                   annotations, gGateway, gResult>>

ParseIPAccessControl ==
    /\ pPc = "call"
    /\ config' = ipAccessControlParse(annotations, config)
    /\ pPc' = "ipAccessControl"
    /\ UNCHANGED <<store, synced, engineVars, thr, runs, normVars, spliceVars, handlerVars,
                   annotations, gGateway, gResult>>

NextParse ==
    \/ ParseLocalRateLimit
    \/ ParseDownstreamTLS
    \/ ParseIPAccessControl

SpecParse == InitParse /\ [][NextParse]_vars

(***************************************************************************)
(* SpecGateway: downstreamTLS.Parse on the annotations of an object, then  *)
(* downstreamTLS.ApplyGateway with the parsed config on a gateway.         *)
(***************************************************************************)
\* The servers of a gateway of the input space.
MaxServers == 2

\* kube.GatewaySdsCaSuffix of the istio library.
GatewaySdsCaSuffix == "-cacert"

\* The prefix of the credential name of a certificate secret.
kubernetesSecretTypeURI == "kubernetes-ingress://"

\* extraSecret: the certificate secret a credential name
\* "kubernetes-ingress://cluster/namespace/name" names; the empty name for
\* any other text.
extraSecret(name) ==
    LET parts == SplitTokens(IF name # <<>> /\ name[1] = kubernetesSecretTypeURI
                             THEN Tail(name) ELSE name, "/", 1, <<>>)
    IN  IF Len(parts) # 3 THEN [Namespace |-> <<>>, Name |-> <<>>]
        ELSE [Namespace |-> parts[2], Name |-> parts[3]]

\* gatewaytool.IsTLSServer of the istio library: the server has TLS
\* settings and its port's protocol is not an HTTP one.
IsTLSServer(server) == ~server.Tls.nil /\ server.Protocol \notin {"HTTP", "HTTP2", "GRPC"}

\* Lines 49-55 and 63-65 of downstreamtls.go: the enum value of a version;
\* a missing key reads as the zero value.
Convert(protocol) ==
    CASE protocol = <<"TLSv1.0">> -> "TLSV1_0"
      [] protocol = <<"TLSv1.1">> -> "TLSV1_1"
      [] protocol = <<"TLSv1.2">> -> "TLSV1_2"
      [] protocol = <<"TLSv1.3">> -> "TLSV1_3"
      [] OTHER -> "TLS_AUTO"

\* Lines 137-139 of downstreamtls.go without the comparison of line 137.
CASecretMatches_AnyNamespace(ca, serverCert) ==
    ca.Name = serverCert.Name \/ ca.Name = Append(serverCert.Name, GatewaySdsCaSuffix)

\* Lines 137-139 of downstreamtls.go: the CA secret is in the namespace of
\* the server's certificate and has its name, or its name plus the suffix.
CASecretMatches(ca, serverCert) ==
    /\ ca.Namespace = serverCert.Namespace
    /\ \/ ca.Name = serverCert.Name
       \/ ca.Name = Append(serverCert.Name, GatewaySdsCaSuffix)

\* Lines 134-155 of downstreamtls.go: one server of the loop.
ApplyServer(server, tls) ==
    IF ~IsTLSServer(server) THEN server
    ELSE [server EXCEPT
            !.Tls.Mode =
                IF tls.CASecretName.Name # <<>>
                   /\ CASecretMatches(tls.CASecretName, extraSecret(server.Tls.CredentialName))
                THEN tls.Mode ELSE @,
            !.Tls.MinProtocolVersion =
                IF tls.TlsMinVersion # <<>> THEN Convert(tls.TlsMinVersion) ELSE @,
            !.Tls.MaxProtocolVersion =
                IF tls.TlsMaxVersion # <<>> THEN Convert(tls.TlsMaxVersion) ELSE @,
            !.Tls.CipherSuites =
                IF Len(tls.CipherSuites) # 0 THEN tls.CipherSuites ELSE @]

\* downstreamTLS.ApplyGateway (lines 127-157 of downstreamtls.go).
downstreamTLSApplyGateway(servers, cfg) ==
    IF cfg.DownstreamTLS.nil THEN servers
    ELSE [i \in DOMAIN servers |-> ApplyServer(servers[i], cfg.DownstreamTLS)]

NoTLS ==
    [nil |-> TRUE, Mode |-> "PASSTHROUGH", CredentialName |-> <<>>,
     MinProtocolVersion |-> "TLS_AUTO", MaxProtocolVersion |-> "TLS_AUTO",
     CipherSuites |-> <<>>]

ServerTLS(mode, credentialName) ==
    [NoTLS EXCEPT !.nil = FALSE, !.Mode = mode, !.CredentialName = credentialName]

\* The servers of the input space: a plain HTTP server, an HTTP server
\* with TLS settings, HTTPS servers with the certificates ns/cert and
\* ns2/cert, and a TLS server whose credential name is no secret URI.
ServerInputs ==
    {[Protocol |-> "HTTP", Tls |-> NoTLS],
     [Protocol |-> "HTTP", Tls |-> ServerTLS("SIMPLE", <<kubernetesSecretTypeURI, "c1", "/", "ns", "/", "cert">>)],
     [Protocol |-> "HTTPS", Tls |-> ServerTLS("SIMPLE", <<kubernetesSecretTypeURI, "c1", "/", "ns", "/", "cert">>)],
     [Protocol |-> "HTTPS", Tls |-> ServerTLS("SIMPLE", <<kubernetesSecretTypeURI, "c1", "/", "ns2", "/", "cert">>)],
     [Protocol |-> "TLS", Tls |-> ServerTLS("PASSTHROUGH", <<"cert">>)]}

GatewayInputs == UNION {[1..n -> ServerInputs] : n \in 1..MaxServers}

GatewayAnnotations ==
    {Annot(min \cup max \cup cipher \cup secret) :
        min \in Opt(MSEAnnotationsPrefix, tlsMinVersion, {<<"TLSv1.2">>, <<"TLSv1.4">>}),
        max \in Opt(MSEAnnotationsPrefix, tlsMaxVersion, {<<"TLSv1.3">>}),
        cipher \in Opt(DefaultAnnotationsPrefix, sslCipher,
                       {<<"ECDHE-RSA-AES128-GCM-SHA256", ":", "RC4">>}),
        secret \in Opt(DefaultAnnotationsPrefix, authTLSSecret,
                       {<<"cert">>, <<"ns2", "/", "cert", "-cacert">>, <<"ns2", "/", "cert">>,
                        <<"ns", "/", "other">>, <<"ns2", "/">>})}

InitGateway ==
    /\ InitEngine
    /\ thr = [t \in {"t1"} |-> Idle]
    /\ store = {}
    /\ runs = <<>>
    /\ nRoute = [dests |-> <<>>, weightTotal |-> 0]
    /\ nResult = [panic |-> FALSE, updated |-> FALSE, dests |-> <<>>]
    /\ nPc = "idle"
    /\ sCo = NewConvertOptions
    /\ sResult = NewConvertOptions
    /\ sPc = "idle"
    /\ annotations \in GatewayAnnotations
    /\ config = NewIngress
    /\ pPc = "call"
    /\ gGateway \in GatewayInputs
    /\ gResult = <<>>

\* ApplyGateway with the config Parse left for the object.
ApplyGateway ==
    /\ pPc = "downstreamTLS"
    /\ gResult' = downstreamTLSApplyGateway(gGateway, config)
    /\ pPc' = "ApplyGateway"
    /\ UNCHANGED <<store, synced, engineVars, thr, runs, normVars, spliceVars, handlerVars,
                   annotations, config, gGateway>>

NextGateway ==
    \/ ParseDownstreamTLS
    \/ ApplyGateway

SpecGateway == InitGateway /\ [][NextGateway]_vars

(***************************************************************************)
(* SpecReg: the registration of event handlers.  RegisterEventHandler,     *)
(* AddLocalCluster and InitializeCluster are called in every order; each   *)
(* call of RegisterEventHandler hands over a handler of its own.           *)
(***************************************************************************)
\* The calls of RegisterEventHandler of a behaviour.
MaxHandlers == 2

\* The kinds handlers are registered for: the four of lines 104-105 and one
\* more.
HandlerKinds == SupportedKinds \cup {"ServiceEntry"}

\* Lines 123-125: RegisterEventHandler of every controller of the registry
\* is called with the handler; adapterHandlers keeps these calls in order.
Forward(registry, kind, f) ==
    [c \in Clusters |->
        IF c \in registry
        THEN [adapterHandlers[c] EXCEPT ![kind] = Append(@, f)]
        ELSE adapterHandlers[c]]

\* Lines 102-126.  An unsupported kind returns at line 106.
RegisterEventHandler(kind) ==
    /\ ~Crashed
    /\ Len(registered) < MaxHandlers
    /\ \E f \in {Len(registered) + 1} :
         /\ registered' = Append(registered, [kind |-> kind, f |-> f])
         /\ IF kind \notin SupportedKinds
            THEN UNCHANGED <<handlers, adapterHandlers>>
            ELSE /\ handlers' = [handlers EXCEPT ![kind] = Append(@, f)]
                 /\ adapterHandlers' = Forward(remoteIngressControllers, kind, f)
    /\ UNCHANGED <<store, synced, engineVars, thr, runs, normVars, spliceVars, parserVars,
                   initialized>>

\* Lines 144-162: every stored handler of the four lists is registered on
\* the controller, which is then started.
InitializeCluster(clusterId) ==
    /\ ~Crashed
    /\ clusterId \in remoteIngressControllers \ initialized
    /\ adapterHandlers' =
         [adapterHandlers EXCEPT ![clusterId] =
            [kind \in SupportedKinds |-> adapterHandlers[clusterId][kind] \o handlers[kind]]]
    /\ initialized' = initialized \cup {clusterId}
    /\ UNCHANGED <<store, synced, engineVars, thr, runs, normVars, spliceVars, parserVars,
                   handlers, registered>>

InitReg == Init

NextReg ==
    \/ \E kind \in HandlerKinds : RegisterEventHandler(kind)
    \/ \E c \in Clusters : AddLocalCluster(c)
    \/ \E c \in Clusters : InitializeCluster(c)

SpecReg == InitReg /\ [][NextReg]_vars

(***************************************************************************)
(* SpecLock: the lock operations and the accesses to the fields the lock   *)
(* is for, statement by statement.  A call is the sequence of the          *)
(* statements of its entry point that lock, unlock, read or write; a loop  *)
(* contributes the statements of one iteration.  thr[t].at is the          *)
(* statement the thread executes next.                                     *)
(***************************************************************************)
St(line, kind, var) == [line |-> line, kind |-> kind, var |-> var]

\* Lines 186-190 and 208-248 without the RUnlock of line 190.
PassPrologue_NoRUnlock ==
    << St(186, "RLock", "mutex"), St(187, "read", "remoteIngressControllers"),
       St(214, "RLock", "mutex"), St(215, "read", "remoteIngressControllers"),
       St(219, "RUnlock", "mutex"),
       St(243, "Lock", "mutex"), St(244, "write", "watchedSecretSet"),
       St(245, "Unlock", "mutex") >>

\* Lines 186-190 and 208-248: what every pass does first.
PassPrologue ==
    << St(186, "RLock", "mutex"), St(187, "read", "remoteIngressControllers"),
       St(190, "RUnlock", "mutex"),
       St(214, "RLock", "mutex"), St(215, "read", "remoteIngressControllers"),
       St(219, "RUnlock", "mutex"),
       St(243, "Lock", "mutex"), St(244, "write", "watchedSecretSet"),
       St(245, "Unlock", "mutex") >>

\* Lines 621-644 with the read lock released on return (a deferred
\* RUnlock).
ReflectSecretChangesStatements_DeferredUnlock ==
    << St(623, "RLock", "mutex"), St(624, "read", "watchedSecretSet"),
       St(641, "call", "VirtualService"), St(642, "call", "EnvoyFilter"),
       St(627, "RUnlock", "mutex") >>

\* Lines 621-644: the membership check under the read lock, then the two
\* calls of XDSUpdater.ConfigUpdate, made when the check hit.
ReflectSecretChangesStatements ==
    << St(623, "RLock", "mutex"), St(624, "read", "watchedSecretSet"),
       St(627, "RUnlock", "mutex"),
       St(641, "call", "VirtualService"), St(642, "call", "EnvoyFilter") >>

Statements ==
    [op \in {"AddLocalCluster", "RegisterEventHandler", "List(Gateway)",
             "List(VirtualService)", "List(DestinationRule)", "List(EnvoyFilter)",
             "HasSynced", "GetIngressRoutes", "GetIngressDomains",
             "ReflectSecretChanges"} |->
        CASE op = "AddLocalCluster" ->
                << St(140, "write", "remoteIngressControllers") >>
          [] op = "RegisterEventHandler" ->
                << St(123, "read", "remoteIngressControllers") >>
          [] op = "List(Gateway)" ->
                PassPrologue \o
                << St(259, "RLock", "mutex"), St(260, "read", "remoteIngressControllers"),
                   St(261, "RUnlock", "mutex"),
                   St(275, "Lock", "mutex"), St(276, "write", "ingressDomainCache"),
                   St(277, "Unlock", "mutex") >>
          [] op = "List(VirtualService)" ->
                PassPrologue \o
                << St(310, "RLock", "mutex"), St(311, "read", "remoteIngressControllers"),
                   St(312, "RUnlock", "mutex"),
                   St(693, "RLock", "mutex"), St(694, "read", "remoteIngressControllers"),
                   St(695, "RUnlock", "mutex"),
                   St(345, "RLock", "mutex"), St(346, "read", "remoteIngressControllers"),
                   St(347, "RUnlock", "mutex"),
                   St(368, "Lock", "mutex"), St(369, "write", "ingressRouteCache"),
                   St(370, "Unlock", "mutex"),
                   St(465, "Lock", "mutex"), St(466, "write", "cachedEnvoyFilters"),
                   St(467, "Unlock", "mutex") >>
          [] op = "List(DestinationRule)" ->
                PassPrologue \o
                << St(479, "RLock", "mutex"), St(480, "read", "remoteIngressControllers"),
                   St(481, "RUnlock", "mutex") >>
          [] op = "List(EnvoyFilter)" ->
                << St(179, "RLock", "mutex"), St(182, "read", "cachedEnvoyFilters"),
                   St(182, "RUnlock", "mutex") >>
          [] op = "HasSynced" ->
                << St(791, "RLock", "mutex"), St(793, "read", "remoteIngressControllers"),
                   St(800, "RUnlock", "mutex") >>
          [] op = "GetIngressRoutes" ->
                << St(809, "RLock", "mutex"), St(811, "read", "ingressRouteCache"),
                   St(811, "RUnlock", "mutex") >>
          [] op = "GetIngressDomains" ->
                << St(815, "RLock", "mutex"), St(817, "read", "ingressDomainCache"),
                   St(817, "RUnlock", "mutex") >>
          [] op = "ReflectSecretChanges" -> ReflectSecretChangesStatements]

Running(t) == thr[t].pc = "run"

\* The statement thread t executes next.
Statement(t) == Statements[thr[t].op][thr[t].at]

\* Thread t after its statement: at the next one, or back from the call.
Advanced(t) ==
    IF thr[t].at = Len(Statements[thr[t].op]) THEN Idle
    ELSE [thr[t] EXCEPT !.at = @ + 1]

InitLock ==
    /\ InitEngine
    /\ InitNormIdle
    /\ thr = [t \in Threads |-> Idle]
    /\ store = {}
    /\ runs = <<>>

Enter(t, op, clusterId) ==
    /\ CanCall(t)
    /\ clusterId # "" <=> op = "AddLocalCluster"
    /\ thr' = [thr EXCEPT ![t] = [Idle EXCEPT !.pc = "run", !.op = op, !.at = 1,
                                              !.clusterId = clusterId]]
    /\ UNCHANGED <<store, synced, engineVars, runs, normVars, spliceVars, parserVars, handlerVars>>

\* sync.RWMutex: Lock waits for the writer and the readers to be gone,
\* RLock for the writer.
Acquire(t) ==
    /\ Running(t) /\ ~Crashed
    /\ \/ /\ Statement(t).kind = "Lock"
          /\ mutex = Unlocked
          /\ mutex' = [mutex EXCEPT !.writer = t]
       \/ /\ Statement(t).kind = "RLock"
          /\ mutex.writer = ""
          /\ mutex' = [mutex EXCEPT !.readers = @ \cup {t}]
    /\ thr' = [thr EXCEPT ![t] = Advanced(t)]
    /\ UNCHANGED <<store, synced, remoteIngressControllers, watchedSecretSet,
                   ingressRouteCache, ingressDomainCache, cachedEnvoyFilters,
                   runs, normVars, spliceVars, parserVars, handlerVars>>

Release(t) ==
    /\ Running(t) /\ ~Crashed
    /\ \/ /\ Statement(t).kind = "Unlock"
          /\ mutex' = [mutex EXCEPT !.writer = ""]
       \/ /\ Statement(t).kind = "RUnlock"
          /\ mutex' = [mutex EXCEPT !.readers = @ \ {t}]
    /\ thr' = [thr EXCEPT ![t] = Advanced(t)]
    /\ UNCHANGED <<store, synced, remoteIngressControllers, watchedSecretSet,
                   ingressRouteCache, ingressDomainCache, cachedEnvoyFilters,
                   runs, normVars, spliceVars, parserVars, handlerVars>>

\* Two threads are at accesses to the same field, one of them a write.
Races(t, u) ==
    /\ t # u /\ Running(t) /\ Running(u)
    /\ Statement(t).kind \in {"read", "write"} /\ Statement(u).kind \in {"read", "write"}
    /\ Statement(t).var = Statement(u).var
    /\ "write" \in {Statement(t).kind, Statement(u).kind}

\* A read or a write of a field.  The registry is a Go map: when an access
\* to it races with another the runtime may end the process ("concurrent
\* map read and map write"), or the access goes through.
Access(t) ==
    /\ Running(t) /\ ~Crashed
    /\ Statement(t).kind \in {"read", "write"}
    /\ \/ /\ \E hit \in IF Statement(t).line = 624 THEN BOOLEAN ELSE {FALSE} :
               thr' = [thr EXCEPT ![t] = [Advanced(t) EXCEPT !.hit = hit]]
          /\ remoteIngressControllers' =
               IF Statement(t) = St(140, "write", "remoteIngressControllers")
               THEN remoteIngressControllers \cup {thr[t].clusterId}
               ELSE remoteIngressControllers
       \/ /\ Statement(t).var = "remoteIngressControllers"
          /\ \E u \in DOMAIN thr : Races(t, u)
          /\ thr' = [thr EXCEPT ![t].pc = "panic"]
          /\ UNCHANGED remoteIngressControllers
    /\ UNCHANGED <<store, synced, mutex, watchedSecretSet, ingressRouteCache,
                   ingressDomainCache, cachedEnvoyFilters, runs, normVars, spliceVars, parserVars, handlerVars>>

\* Lines 629-643: a call of XDSUpdater.ConfigUpdate; without a hit the
\* function returns instead.
Call(t) ==
    /\ Running(t) /\ ~Crashed
    /\ Statement(t).kind = "call"
    /\ thr' = [thr EXCEPT ![t] =
                 IF thr[t].hit /\ thr[t].at < Len(Statements[thr[t].op])
                 THEN [thr[t] EXCEPT !.at = @ + 1,
                                     !.pushed = Append(@, Statement(t).var)]
                 ELSE Idle]
    /\ UNCHANGED <<store, synced, engineVars, runs, normVars, spliceVars, parserVars, handlerVars>>

NextLock ==
    \/ \E t \in DOMAIN thr, op \in DOMAIN Statements, c \in Clusters \cup {""} : Enter(t, op, c)
    \/ \E t \in DOMAIN thr : Acquire(t)
    \/ \E t \in DOMAIN thr : Release(t)
    \/ \E t \in DOMAIN thr : Access(t)
    \/ \E t \in DOMAIN thr : Call(t)

SpecLock == InitLock /\ [][NextLock]_vars

\* Fair scheduling: a thread inside a call takes its next step.  A thread
\* that waits for the lock gets it when it becomes free again and again
\* (sync.RWMutex holds back new readers while a writer waits, and wakes the
\* waiting readers when the writer unlocks).  Calls are entered at will.
LockFairness ==
    \A t \in Threads :
        /\ SF_vars(Acquire(t))
        /\ WF_vars(Release(t))
        /\ WF_vars(Access(t))
        /\ WF_vars(Call(t))

SpecLockFair == InitLock /\ [][NextLock]_vars /\ LockFairness

(***************************************************************************)
(* Properties of normalizeWeightedCluster.                                 *)
(***************************************************************************)
RECURSIVE SumHi(_, _)
SumHi(dests, i) ==
    IF i > Len(dests) THEN 0 ELSE (dests[i].weight \div 65536) + SumHi(dests, i + 1)

RECURSIVE SumLo(_, _)
SumLo(dests, i) ==
    IF i > Len(dests) THEN 0 ELSE (dests[i].weight % 65536) + SumLo(dests, i + 1)

\* The weights of dests add up to v over the integers (not modulo 2^32);
\* computed on 16-bit halves.
MathSumIs(dests, v) ==
    LET lo == SumLo(dests, 1)
    IN  /\ (v - lo) % 65536 = 0
        /\ SumHi(dests, 1) = (v - lo) \div 65536

NormDone == nPc = "done"

\* C3: for every route with more than one destination the normalized
\* weights add up to exactly 100, the first destination holding 100 minus
\* the sum of the others; declared [30, 30, 30] on total 100 becomes
\* [40, 30, 30].
C3_SumIsExactly100 ==
    (NormDone /\ Len(nRoute.dests) > 1) =>
        /\ ~nResult.panic
        /\ Len(nResult.dests) = Len(nRoute.dests)
        /\ MathSumIs(nResult.dests, 100)
        /\ ( /\ [i \in 1..Len(nRoute.dests) |-> nRoute.dests[i].weight] = <<30, 30, 30>>
             /\ nRoute.weightTotal = 100 )
           => [i \in 1..3 |-> nResult.dests[i].weight] = <<40, 30, 30>>

\* The same statement for the routes whose normalization total is positive:
\* it is the zero total (0/0) that breaks C3.
SumIs100WhenTotalPositive ==
    (NormDone /\ Len(nRoute.dests) > 1
        /\ (nRoute.weightTotal > 0 \/ SumOthers32(nRoute.dests, 2) > 0)) =>
        /\ ~nResult.panic
        /\ MathSumIs(nResult.dests, 100)

\* C4: a route with exactly one destination leaves normalization with that
\* destination at weight 100, whatever was declared and whatever the
\* route-level total is.
C4_SingleDestinationIs100 ==
    (NormDone /\ Len(nRoute.dests) = 1) =>
        /\ ~nResult.panic
        /\ Len(nResult.dests) = 1
        /\ nResult.dests[1].weight = 100
        /\ nResult.dests[1].svc = nRoute.dests[1].svc

C4_Witness ==
    /\ NormDone
    /\ Len(nRoute.dests) = 1
    /\ nRoute.dests[1].weight = 20
    /\ nRoute.weightTotal = 50
    /\ nResult.dests[1].weight = 100

RECURSIVE DeclaredSum(_, _)
\* The sum of the declared weights from index i on, over the integers.
DeclaredSum(dests, i) ==
    IF i > Len(dests) THEN 0 ELSE dests[i].weight + DeclaredSum(dests, i + 1)

\* The larger of the declared sum of the non-first destinations and the
\* route-level total.
SpecTotal(route) ==
    IF DeclaredSum(route.dests, 2) < route.weightTotal
    THEN route.weightTotal ELSE DeclaredSum(route.dests, 2)

\* C16: for a route with more than one destination (and a positive total),
\* every non-first destination leaves normalization with the weight
\* round_down(declared weight * 100 / total), total being the larger of the
\* declared sum of the non-first destinations and the route-level total.
C16_OthersAreRoundedDownPercentages ==
    (NormDone /\ Len(nRoute.dests) > 1 /\ SpecTotal(nRoute) > 0) =>
        \A i \in 2..Len(nRoute.dests) :
            nResult.dests[i].weight = (nRoute.dests[i].weight * 100) \div SpecTotal(nRoute)

\* What the code computes is within one of that percentage, from below.
OthersAreWithinOneBelow ==
    (NormDone /\ Len(nRoute.dests) > 1 /\ SpecTotal(nRoute) > 0) =>
        \A i \in 2..Len(nRoute.dests) :
            LET exact == (nRoute.dests[i].weight * 100) \div SpecTotal(nRoute)
            IN  nResult.dests[i].weight \in {exact - 1, exact}

(***************************************************************************)
(* Properties of the engine's tables (SpecConc).                           *)
(***************************************************************************)
\* C1: the route table, the domain table and the filter cache are replaced
\* together, so the route table never references a domain that is missing
\* from the domain table.
C1_RoutesReferenceKnownDomains ==
    \A r \in ingressRouteCache : r.host \in ingressDomainCache

(***************************************************************************)
(* Properties of the calls of one caller (Spec).                           *)
(***************************************************************************)
\* C2: a pass whose filter derivation fails to serialize the rule set
\* leaves the filter cache as the previous pass stored it.
C2_FilterCacheKeptOnSerializationFailure ==
    [][\A t \in DOMAIN thr :
          (thr[t].pc = "assemble" /\ thr'[t].pc = "done" /\ thr'[t].filterErr)
              => cachedEnvoyFilters' = cachedEnvoyFilters]_vars

ReflectDone(t) == thr[t].pc = "done" /\ thr[t].op = "ReflectSecretChanges"

KindsOf(request) == {key.Kind : key \in request.ConfigsUpdated}

C9_ListUnsupportedChangesNothing ==
    [][\A t \in DOMAIN thr :
          ( /\ thr[t].pc = "idle" /\ thr'[t].pc # "idle" /\ thr'[t].op = "List"
            /\ \/ thr'[t].typ \notin {"Gateway", "VirtualService", "DestinationRule",
                                      "EnvoyFilter"}
               \/ thr'[t].ns # "" )
              => /\ thr'[t].pc = "done"
                 /\ thr'[t].err = "ErrUnsupportedOp"
                 /\ thr'[t].val = <<>>
                 /\ thr'[t].configs = <<>> /\ thr'[t].co = <<>>
                 /\ UNCHANGED engineVars]_vars

C9_Witness ==
    \E t \in DOMAIN thr :
        /\ thr[t].pc = "done" /\ thr[t].op = "List"
        /\ thr[t].typ = "VirtualService" /\ thr[t].ns = "ns"
        /\ thr[t].err = "ErrUnsupportedOp"
        /\ ingressRouteCache # {} /\ ingressDomainCache # {}
        /\ cachedEnvoyFilters # <<>> /\ watchedSecretSet # {}

\* C10: Create, Update, UpdateStatus, Patch and Delete each return
\* ErrUnsupportedOp in one step and leave the registry, the caches and the
\* watched-secret set as they were.
C10_MutationsUnsupported ==
    [][\A t \in DOMAIN thr :
          (thr[t].pc = "idle" /\ thr'[t].pc # "idle" /\ thr'[t].op \in Mutations)
              => /\ thr'[t].pc = "done"
                 /\ thr'[t].err = "ErrUnsupportedOp"
                 /\ thr'[t].val = <<>>
                 /\ UNCHANGED engineVars]_vars

C10_Witness ==
    \E t \in DOMAIN thr :
        /\ thr[t].pc = "done" /\ thr[t].op = "Delete"
        /\ thr[t].err = "ErrUnsupportedOp"
        /\ remoteIngressControllers # {}
        /\ ingressRouteCache # {} /\ ingressDomainCache # {}
        /\ cachedEnvoyFilters # <<>> /\ watchedSecretSet # {}

\* C11: HasSynced returns true exactly when every controller in the
\* registry at the time of the call reports synced, and false when one of
\* them does not.
C11_HasSyncedIffAllSynced ==
    [][\A t \in DOMAIN thr :
          (thr[t].pc = "idle" /\ thr'[t].pc # "idle" /\ thr'[t].op = "HasSynced")
              => /\ thr'[t].pc = "done"
                 /\ thr'[t].isSynced = (remoteIngressControllers \subseteq synced)
                 /\ UNCHANGED engineVars]_vars

C11_Witness ==
    \E t \in DOMAIN thr :
        /\ thr[t].pc = "done" /\ thr[t].op = "HasSynced" /\ ~thr[t].isSynced
        /\ remoteIngressControllers = Clusters
        /\ synced # {} /\ synced # Clusters

\* The secrets the annotations of the listed objects name.
SecretsOf(configs) ==
    {<<Ingress[id].cluster, Ingress[id].ns, Ingress[id].authSecret>> :
        id \in {x \in {configs[i] : i \in DOMAIN configs} : Ingress[x].authSecret # ""}}

\* C14: when a pass has built its wrapper configs, the watched-secret set
\* is exactly the set of secrets recorded for the objects of that pass;
\* the secrets of earlier passes are gone.
C14_WatchedSecretsOfThisPass ==
    [][\A t \in DOMAIN thr :
          (thr[t].pc = "wrap" /\ thr'[t].pc # "wrap")
              => /\ thr'[t].pc = "convert"
                 /\ watchedSecretSet' = SecretsOf(thr[t].configs)]_vars

C14_Witness ==
    \E t \in DOMAIN thr :
        /\ thr[t].pc = "convert"
        /\ thr[t].configs = <<2>>
        /\ watchedSecretSet = {}
        /\ ingressRouteCache # {}

(***************************************************************************)
(* Properties of the lock (SpecLock).                                      *)
(***************************************************************************)
\* C13: every read and every write of the registry, the watched-secret
\* set and the three tables happens with the lock held by the accessing
\* thread, the write lock for a write.
C13_AccessesHoldTheLock ==
    \A t \in DOMAIN thr :
        Running(t) =>
            /\ Statement(t).kind = "read" => (t \in mutex.readers \/ mutex.writer = t)
            /\ Statement(t).kind = "write" => mutex.writer = t

\* No two threads are ever at racing accesses.
NoRace == \A t, u \in DOMAIN thr : ~Races(t, u)

\* The accesses of the passes and of the readers do hold the lock.
PassesAndReadersHoldTheLock ==
    \A t \in DOMAIN thr :
        (Running(t) /\ thr[t].op \notin {"AddLocalCluster", "RegisterEventHandler"}) =>
            /\ Statement(t).kind = "read" => t \in mutex.readers
            /\ Statement(t).kind = "write" => mutex.writer = t

\* C23: a thread in ReflectSecretChanges never holds the write lock,
\* holds the read lock only around the membership check of line 624, and
\* holds no lock when it calls XDSUpdater.ConfigUpdate.
C23_PushesWithoutTheLock ==
    \A t \in DOMAIN thr :
        (Running(t) /\ thr[t].op = "ReflectSecretChanges") =>
            /\ mutex.writer # t
            /\ t \in mutex.readers => Statement(t).line \in {624, 627}
            /\ Statement(t).kind = "call" => t \notin mutex.readers

\* A thread has pushed once and is about to push again while the other
\* thread holds the write lock.
C23_Witness ==
    /\ Running("t1") /\ thr["t1"].op = "ReflectSecretChanges"
    /\ thr["t1"].pushed = <<"VirtualService">>
    /\ Statement("t1").kind = "call"
    /\ mutex.writer = "t2"

(***************************************************************************)
(* Properties of applyAppRoot and applyInternalActiveRedirect              *)
(* (SpecSplice).                                                           *)
(***************************************************************************)
Range(seq) == {seq[i] : i \in DOMAIN seq}

RedirectDone == sPc = "applyInternalActiveRedirect"
AppRootDone == sPc = "applyAppRoot"

\* The routes of the host that were there before the call, in the order
\* the call left them in.
PreExisting(h) ==
    SelectSeq(sResult.HTTPRoutes[h], LAMBDA r : r \in Range(sCo.HTTPRoutes[h]))

CompanionName(r) == Append(r.name, "fallback")

HasCompanion(h, r) ==
    \E j \in DOMAIN sResult.HTTPRoutes[h] : sResult.HTTPRoutes[h][j].name = CompanionName(r)

IsTrigger(r) == r.marker /\ Ingress[r.obj].fallback # ""

\* C12: a route with the internal-redirect marker whose object declares no
\* fallback target gets no companion route, and stays as it was and where
\* it was among the routes of its host; the call does not fail.
C12_MarkerWithoutFallbackLeftAlone ==
    RedirectDone =>
        /\ ~sResult.panic
        /\ DOMAIN sResult.HTTPRoutes = DOMAIN sCo.HTTPRoutes
        /\ \A h \in DOMAIN sCo.HTTPRoutes :
             \A i \in DOMAIN sCo.HTTPRoutes[h] :
                LET r == sCo.HTTPRoutes[h][i]
                IN  (r.marker /\ Ingress[r.obj].fallback = "")
                        => /\ ~HasCompanion(h, r)
                           /\ PreExisting(h) = sCo.HTTPRoutes[h]

C12_Witness ==
    /\ RedirectDone
    /\ Len(sCo.HTTPRoutes["a.com"]) = 3
    /\ sCo.HTTPRoutes["a.com"][2].marker
    /\ Ingress[sCo.HTTPRoutes["a.com"][2].obj].fallback = ""
    /\ Len(sResult.HTTPRoutes["a.com"]) = 4

\* C15: the companion route of every route with the marker and a fallback
\* target stands immediately before that route, wherever the route is in
\* the list of its host, and the routes that were there keep their order.
C15_CompanionImmediatelyBefore ==
    RedirectDone =>
        \A h \in DOMAIN sCo.HTTPRoutes :
            /\ PreExisting(h) = sCo.HTTPRoutes[h]
            /\ \A i \in DOMAIN sCo.HTTPRoutes[h] :
                 LET r == sCo.HTTPRoutes[h][i]
                     out == sResult.HTTPRoutes[h]
                 IN  IsTrigger(r) =>
                        \E j \in 1..(Len(out) - 1) :
                            out[j].name = CompanionName(r) /\ out[j + 1] = r

\* What the call does: the companion routes stand at the front of the
\* list, the one of the last trigger first, before all the routes that
\* were there.
CompanionsAtFront ==
    RedirectDone =>
        \A h \in DOMAIN sCo.HTTPRoutes :
            LET triggers == SelectSeq(sCo.HTTPRoutes[h], IsTrigger)
                k == Len(triggers)
            IN  sResult.HTTPRoutes[h] =
                    [j \in 1..k |-> FallbackRoute(triggers[k + 1 - j])] \o sCo.HTTPRoutes[h]

HasAppRoot(h) ==
    h \in DOMAIN sCo.VirtualServices /\ sCo.VirtualServices[h].appRoot # ""

\* C19: applyAppRoot puts one route (exact match on "/", redirect 302 to
\* the app-root target, named from the host and "app-root") at the front
\* of the list of every host whose feature entry has an app-root target,
\* before the routes that were there in their order, and leaves the lists
\* of the other hosts as they were.
C19_AppRootRouteAtFront ==
    AppRootDone =>
        /\ DOMAIN sResult.HTTPRoutes = DOMAIN sCo.HTTPRoutes
        /\ \A h \in DOMAIN sCo.HTTPRoutes :
             LET out == sResult.HTTPRoutes[h]
             IN  IF HasAppRoot(h)
                 THEN /\ Len(out) = Len(sCo.HTTPRoutes[h]) + 1
                      /\ out[1].name = <<h, "app-root">>
                      /\ out[1].path = "/"
                      /\ out[1].redirectCode = 302
                      /\ out[1].redirect = sCo.VirtualServices[h].appRoot
                      /\ Tail(out) = sCo.HTTPRoutes[h]
                 ELSE out = sCo.HTTPRoutes[h]

C19_Witness ==
    /\ AppRootDone
    /\ HasAppRoot("a.com") /\ Len(sCo.HTTPRoutes["a.com"]) = 3
    /\ ~HasAppRoot("*") /\ Len(sCo.HTTPRoutes["*"]) = 1
    /\ Len(sResult.HTTPRoutes["a.com"]) = 4

(***************************************************************************)
(* Properties of whole passes (SpecPass).                                  *)
(***************************************************************************)
\* C6: a route pass that meets a host with routes and no entry in the
\* feature map still completes and returns its virtual services.
C6_PassCompletesWithoutFeatureEntry ==
    \A i \in DOMAIN runs :
        (runs[i].typ = "VirtualService" /\ runs[i].hostsWithoutFeatures # {})
            => ~runs[i].panic

\* C7: two passes of one kind over the same objects and adapters return
\* the same list, and leave the same filter patch, order included.
C7_TwoPassesIdentical ==
    \A i, j \in DOMAIN runs :
        ( /\ runs[i].typ = runs[j].typ
          /\ ~runs[i].panic /\ ~runs[j].panic
          /\ ~runs[i].filterErr /\ ~runs[j].filterErr )
            => runs[i].val = runs[j].val /\ runs[i].filters = runs[j].filters

Registered(configs) ==
    SelectSeq(configs, LAMBDA id : Ingress[id].cluster \in remoteIngressControllers)

\* Every object of the pass with a registered adapter was handed to it in
\* each stage the pass ran.
HandedAll(run) ==
    CASE run.typ = "Gateway" -> run.handed.gateway = Registered(run.configs)
      [] run.typ = "DestinationRule" -> run.handed.trafficPolicy = Registered(run.configs)
      [] run.typ = "VirtualService" ->
            /\ run.handed.route = Registered(run.configs)
            /\ run.handed.canary =
                 IF Len(run.configs) > Len(run.canaries) THEN run.canaries ELSE <<>>
            /\ run.handed.defaultBackend =
                 IF run.hasDefaultBackend THEN Registered(run.configs) ELSE <<>>

\* The conversion loops go on after an error: whatever the adapters
\* return, every stage hands every object to its adapter.
HandedDespiteErrors == \A i \in DOMAIN runs : HandedAll(runs[i])

\* The routes of a returned virtual service that went through
\* normalization: not the app-root route, not a fallback companion, not
\* the route of the default backend, which are built after it.
NormalizedRoutes(vs) ==
    {r \in Range(vs.http) :
        /\ r.name[Len(r.name)] \notin {"app-root", "fallback"}
        /\ ~Ingress[r.obj].defaultBackendOnly}

\* C17: the route table a route pass commits holds every route the pass
\* normalized, those with one destination as well as those with several.
C17_EveryNormalizedRouteInRouteTable ==
    \A i \in DOMAIN runs :
        (runs[i].typ = "VirtualService" /\ ~runs[i].panic) =>
            \A k \in DOMAIN runs[i].val :
                \A r \in NormalizedRoutes(runs[i].val[k]) :
                    \E e \in ingressRouteCache : e.name = r.name /\ e.dests = r.dests

\* What the pass commits: the routes with several destinations.
WeightedRoutesInRouteTable ==
    \A i \in DOMAIN runs :
        (runs[i].typ = "VirtualService" /\ ~runs[i].panic) =>
            \A k \in DOMAIN runs[i].val :
                \A r \in NormalizedRoutes(runs[i].val[k]) :
                    Len(r.dests) > 1 <=>
                        \E e \in ingressRouteCache : e.name = r.name /\ e.dests = r.dests

\* The clusters of the listed objects: every one of them was registered
\* when the pass listed, and the registry only grows.
ClustersOf(configs) == {Ingress[configs[i]].cluster : i \in DOMAIN configs}

\* What List(Gateway) can return for these objects when it runs alone.
AloneGateways(configs) ==
    UNION {{GatewaysOut(co, order) : order \in Orders(DOMAIN co.Gateways)} :
              co \in {DeriveGateways(configs, ClustersOf(configs))}}

\* What List(VirtualService) can return for these objects when it runs
\* alone and does not panic.
AloneVirtualServices(configs) ==
    UNION {UNION {{res.out : res \in {r \in {AssembleVirtualServices(co, hostOrder, 1, <<>>) :
                                               hostOrder \in Orders(DOMAIN co.HTTPRoutes)} :
                                        ~r.panic}} :
                     co \in {c \in {DeriveRoutes(configs, ClustersOf(configs), nan)} :
                               ~c.panic}} :
              nan \in NaNToInt32}

AssembleDone == sPc = "assemble" /\ ~sResult.panic

\* The host of an emitted virtual service: the host of its routes.
HostOf(vs) == vs.http[1].host

\* C20: an emitted virtual service is bound to the default gateway of the
\* local cluster for its host, then to the derived gateway of the host,
\* and to the global gateway exactly when its host is not "*"; the hosts
\* with an empty route list have no virtual service, the others have one.
C20_VirtualServiceGateways ==
    AssembleDone =>
        /\ \A k \in DOMAIN sResult.out :
             LET vs == sResult.out[k]
                 host == HostOf(vs)
             IN  /\ Len(vs.gateways) \in {2, 3}
                 /\ vs.gateways[1] = <<EngineNamespace, EngineClusterId, CleanHost(host)>>
                 /\ vs.gateways[2] = <<IstioIngressGatewayName, CleanHost(host)>>
                 /\ (GlobalGatewayName \in Range(vs.gateways)) <=> (host # "*")
                 /\ vs.http = sCo.HTTPRoutes[host]
        /\ \A h \in DOMAIN sCo.HTTPRoutes :
             Cardinality({k \in DOMAIN sResult.out : HostOf(sResult.out[k]) = h}) =
                 IF Len(sCo.HTTPRoutes[h]) = 0 THEN 0 ELSE 1

\* The wildcard host has routes and a virtual service, the named host has
\* an empty route list and none.
C20_Witness ==
    /\ AssembleDone
    /\ Len(sCo.HTTPRoutes["*"]) = 1
    /\ Len(sCo.HTTPRoutes["a.com"]) = 0
    /\ Len(sResult.out) = 1
    /\ Len(sResult.out[1].gateways) = 2

\* Both hosts have routes and a virtual service each.
BothHostsEmitted ==
    /\ AssembleDone
    /\ Len(sResult.out) = 2
    /\ \E k \in {1, 2} : Len(sResult.out[k].gateways) = 3

\* The routes a route pass returned, over all its virtual services.
RoutesOf(run) == UNION {Range(run.val[k].http) : k \in DOMAIN run.val}

\* The route applyAppRoot synthesized: the redirect with code 302.
IsAppRootRoute(r) == r.redirectCode = 302

\* The returned routes whose object carries an auth fragment, the
\* app-root redirects left out.
AuthRoutes(run) ==
    {r \in RoutesOf(run) : ~IsAppRootRoute(r) /\ Ingress[r.obj].authSecret # ""}

\* The rules of the filter patch the pass stored.
RulesOf(run) == IF run.filters = <<>> THEN <<>> ELSE run.filters[1].rules

IsRuleFor(rule, key) == rule.Realm = key.realm /\ rule.Credentials = key.secret

Occurrences(seq, x) == Cardinality({j \in DOMAIN seq : seq[j] = x})

TwoAuthRules ==
    \E i \in DOMAIN runs : ~runs[i].filterErr /\ Len(RulesOf(runs[i])) = 2

\* The per-port fragments the adapters contributed in a traffic policy
\* pass: one per (namespace, service, port) of the objects handed to them
\* and converted.
Fragments(run) ==
    {[ns |-> Ingress[id].ns, name |-> Ingress[id].svc, port |-> Ingress[id].port] :
        id \in {x \in Range(run.handed.trafficPolicy) : ~Ingress[x].convErr}}

\* The returned policies of the service of a fragment.
PoliciesOf(run, f) == {k \in DOMAIN run.val : run.val[k].host = ServiceFQDN(f)}

\* C22: a traffic policy pass returns one policy per destination service,
\* and the port settings of that policy hold each fragment of the service
\* exactly once and nothing else.
C22_OnePolicyPerService ==
    \A i \in DOMAIN runs :
        runs[i].typ = "DestinationRule" =>
            /\ Len(runs[i].val) = Cardinality({ServiceFQDN(f) : f \in Fragments(runs[i])})
            /\ \A f \in Fragments(runs[i]) :
                 /\ Cardinality(PoliciesOf(runs[i], f)) = 1
                 /\ \A k \in PoliciesOf(runs[i], f) :
                      /\ Occurrences(runs[i].val[k].portLevelSettings, f.port) = 1
                      /\ Len(runs[i].val[k].portLevelSettings) =
                             Cardinality({g \in Fragments(runs[i]) :
                                             ServiceFQDN(g) = ServiceFQDN(f)})

\* One service with two ports has one policy with two port settings.
C22_Witness ==
    \E i \in DOMAIN runs :
        /\ runs[i].typ = "DestinationRule"
        /\ Len(runs[i].val) = 1
        /\ Len(runs[i].val[1].portLevelSettings) = 2

\* The rate annotation the parser used, per-minute before per-second.
RateOf(a) ==
    IF ~ParseUint32ForMSE(a, limitRPM).err THEN ParseUint32ForMSE(a, limitRPM).val
    ELSE ParseUint32ForMSE(a, limitRPS).val

RateLimitDone == pPc = "localRateLimit" /\ ~config.localRateLimit.nil

\* C24: for a rate r and a burst multiplier m, 5 without the annotation,
\* the parser leaves max_tokens = r * m, tokens per fill = r and the
\* interval of the unit of the rate.
C24_MaxTokensIsRateTimesMultiplier ==
    RateLimitDone =>
        /\ config.localRateLimit.MaxTokens \o <<0, 0, 0, 0>> =
               Mul64(RateOf(annotations), BurstMultiplier(annotations))
        /\ config.localRateLimit.TokensPerFill = RateOf(annotations)
        /\ config.localRateLimit.FillInterval =
               IF ~ParseUint32ForMSE(annotations, limitRPM).err THEN minute ELSE second

\* The tokens per fill and the interval are as stated, and so is
\* max_tokens whenever the product fits 32 bits.
RateLimitUpToOverflow ==
    RateLimitDone =>
        /\ SubSeq(Mul64(RateOf(annotations), BurstMultiplier(annotations)), 5, 8)
               = <<0, 0, 0, 0>>
             => config.localRateLimit.MaxTokens \o <<0, 0, 0, 0>> =
                    Mul64(RateOf(annotations), BurstMultiplier(annotations))
        /\ config.localRateLimit.TokensPerFill = RateOf(annotations)
        /\ config.localRateLimit.FillInterval =
               IF ~ParseUint32ForMSE(annotations, limitRPM).err THEN minute ELSE second

TLSDone == pPc = "downstreamTLS"

\* The text of the annotation under the MSE prefix, empty without it.
TextForMSE(a, name) ==
    IF <<MSEAnnotationsPrefix, name>> \in DOMAIN a THEN a[<<MSEAnnotationsPrefix, name>>]
    ELSE <<>>

\* The version the parser has to store for a text: the text when it is one
\* of the four versions, none otherwise.
VersionFor(text) ==
    IF text \in {<<"TLSv1.0">>, <<"TLSv1.1">>, <<"TLSv1.2">>, <<"TLSv1.3">>} THEN text
    ELSE <<>>

\* C25: the TLS parser returns no error; it stores a min (max) version
\* exactly for the four known versions and leaves it unset for any other
\* text, and decodes the cipher suites and the CA secret all the same.
C25_UnknownVersionIsDropped ==
    TLSDone =>
        /\ config.err = ""
        /\ config.DownstreamTLS.nil = ~needDownstreamTLS(annotations)
        /\ config.DownstreamTLS.TlsMinVersion =
               VersionFor(TextForMSE(annotations, tlsMinVersion))
        /\ config.DownstreamTLS.TlsMaxVersion =
               VersionFor(TextForMSE(annotations, tlsMaxVersion))
        /\ config.DownstreamTLS.CipherSuites =
               IF <<DefaultAnnotationsPrefix, sslCipher>> \in DOMAIN annotations
               THEN <<<<"ECDHE-RSA-AES128-GCM-SHA256">>>> ELSE <<>>
        /\ config.DownstreamTLS.Mode = "MUTUAL" <=>
               /\ <<DefaultAnnotationsPrefix, authTLSSecret>> \in DOMAIN annotations
               /\ annotations[<<DefaultAnnotationsPrefix, authTLSSecret>>] # <<"ns2", "/">>

\* An unknown min version next to a known max version, a cipher list and
\* a CA secret: the min version is unset, the rest is decoded.
C25_Witness ==
    /\ TLSDone
    /\ TextForMSE(annotations, tlsMinVersion) = <<"TLSv1.4">>
    /\ config.DownstreamTLS.TlsMinVersion = <<>>
    /\ config.DownstreamTLS.TlsMaxVersion = <<"TLSv1.3">>
    /\ config.DownstreamTLS.CipherSuites # <<>>
    /\ config.DownstreamTLS.CASecretName = [Namespace |-> <<"ns">>, Name |-> <<"ca">>]

IPDone == pPc = "ipAccessControl"

\* The text of an annotation under a prefix, empty without it.
TextUnder(a, prefix, name) ==
    IF <<prefix, name>> \in DOMAIN a THEN a[<<prefix, name>>] ELSE <<>>

\* The text of the route whitelist: the default prefix before the MSE one.
WhitelistText(a) ==
    IF TextUnder(a, DefaultAnnotationsPrefix, whitelist) # <<>>
    THEN TextUnder(a, DefaultAnnotationsPrefix, whitelist)
    ELSE TextUnder(a, MSEAnnotationsPrefix, whitelist)

\* The addresses the lists of the input space spell.
AddressesOf(text) ==
    IF text = <<"1.1.1.1", ",", " ", "3.3.3.3">> THEN <<<<"1.1.1.1">>, <<"3.3.3.3">>>>
    ELSE <<text>>

\* C26: the IP access-control parser leaves at most one list per scope,
\* the whitelist when there is one and else the blacklist, with the
\* addresses of its text; the route scope and the domain scope do not
\* depend on each other; without any of the annotations the config stays
\* unset; the cases of TestIPAccessControlParse come out as expected.
C26_OneListPerScope ==
    IPDone =>
        /\ config.IPAccessControl.nil = ~needIPAccessControlConfig(annotations)
        /\ config.IPAccessControl.Route =
               IF WhitelistText(annotations) # <<>>
               THEN [nil |-> FALSE, isWhite |-> TRUE,
                     remoteIp |-> AddressesOf(WhitelistText(annotations))]
               ELSE IF TextUnder(annotations, MSEAnnotationsPrefix, blacklist) # <<>>
               THEN [nil |-> FALSE, isWhite |-> FALSE, remoteIp |-> <<<<"2.2.2.2">>>>]
               ELSE NoIPAccessControl
        /\ config.IPAccessControl.Domain =
               IF TextUnder(annotations, MSEAnnotationsPrefix, domainWhitelist) # <<>>
               THEN [nil |-> FALSE, isWhite |-> TRUE, remoteIp |-> <<<<"1.1.1.1">>>>]
               ELSE IF TextUnder(annotations, MSEAnnotationsPrefix, domainBlacklist) # <<>>
               THEN [nil |-> FALSE, isWhite |-> FALSE, remoteIp |-> <<<<"2.2.2.2">>>>]
               ELSE NoIPAccessControl
        /\ \A k \in DOMAIN TestCases :
               annotations = TestCases[k].input =>
                   config.IPAccessControl = TestCases[k].expect

\* Both lists of the route scope and a domain blacklist: the route scope
\* is the whitelist with its two addresses, the domain scope the
\* blacklist.
C26_Witness ==
    /\ IPDone
    /\ TextUnder(annotations, MSEAnnotationsPrefix, blacklist) # <<>>
    /\ config.IPAccessControl.Route =
           [nil |-> FALSE, isWhite |-> TRUE, remoteIp |-> <<<<"1.1.1.1">>, <<"3.3.3.3">>>>]
    /\ config.IPAccessControl.Domain.isWhite = FALSE
    /\ ~config.IPAccessControl.Domain.nil

\* Every case of the test is an input of the specification.
TestCasesAreInputs ==
    pPc = "call" => \A k \in DOMAIN TestCases :
                        TestCases[k].input \in IPAccessControlInputs

\* C27: normalizeWeightedCluster completes for every route, one without
\* destinations and one whose weights and total are all zero included,
\* and leaves every weight within 0..100.
C27_NormalizationIsTotal ==
    NormDone =>
        /\ ~nResult.panic
        /\ \A i \in DOMAIN nResult.dests : nResult.dests[i].weight \in 0..100

\* A route with no destination makes the call panic.
EmptyRoutePanics ==
    (NormDone /\ Len(nRoute.dests) = 0) => nResult.panic

\* The call completes for every route that has a destination.
CompletesWithADestination ==
    (NormDone /\ Len(nRoute.dests) > 0) => ~nResult.panic

(***************************************************************************)
(* Properties of the handler registration (SpecReg).                       *)
(***************************************************************************)
\* The number of times handler f is in a controller's list for the kind.
TimesRegistered(c, kind, f) ==
    Cardinality({j \in DOMAIN adapterHandlers[c][kind] : adapterHandlers[c][kind][j] = f})

\* C28: once a cluster is initialized, each handler registered for a
\* supported kind is registered on that cluster's adapter exactly once, and
\* a handler registered for an unsupported kind is in no list of the engine
\* and of no adapter.
C28_EachHandlerRegisteredOnce ==
    \A i \in DOMAIN registered :
        IF registered[i].kind \in SupportedKinds
        THEN \A c \in initialized :
                TimesRegistered(c, registered[i].kind, registered[i].f) = 1
        ELSE \A kind \in SupportedKinds :
                /\ \A j \in DOMAIN handlers[kind] : handlers[kind][j] # registered[i].f
                /\ \A c \in Clusters : TimesRegistered(c, kind, registered[i].f) = 0

\* A handler is never missing from an initialized cluster, and a handler of
\* an unsupported kind is stored nowhere.
HandlerRegisteredAtLeastOnce ==
    \A i \in DOMAIN registered :
        IF registered[i].kind \in SupportedKinds
        THEN \A c \in initialized :
                TimesRegistered(c, registered[i].kind, registered[i].f) \in {1, 2}
        ELSE \A kind \in SupportedKinds :
                /\ \A j \in DOMAIN handlers[kind] : handlers[kind][j] # registered[i].f
                /\ \A c \in Clusters : TimesRegistered(c, kind, registered[i].f) = 0

\* A handler registered between AddLocalCluster and InitializeCluster of a
\* cluster is registered twice on it.
RegisteredTwice ==
    \E i \in DOMAIN registered, c \in initialized :
        /\ registered[i].kind \in SupportedKinds
        /\ TimesRegistered(c, registered[i].kind, registered[i].f) = 2

(***************************************************************************)
(* Properties of the watched-secret set and the filter cache under         *)
(* concurrent passes (SpecConc).                                           *)
(***************************************************************************)
\* No pass is between its listing and its return.
NoPassInProgress == \A t \in DOMAIN thr : thr[t].pc \in {"idle", "done"}

\* The secrets the auth rules of the cached filter patch name.
CachedFilterSecrets ==
    UNION {{cachedEnvoyFilters[i].rules[j].Credentials :
                j \in DOMAIN cachedEnvoyFilters[i].rules} : i \in DOMAIN cachedEnvoyFilters}

\* C29: whenever no pass is in progress, every secret an auth rule of the
\* cached filter patch names is in the watched-secret set, under every
\* interleaving of concurrent passes.
C29_CachedFilterSecretsAreWatched ==
    NoPassInProgress => CachedFilterSecrets \subseteq watchedSecretSet

\* Two route passes have returned; the filter patch is what one committed
\* and the watched-secret set what the other committed.
FilterAndSecretsOfDifferentPasses ==
    /\ \A t \in DOMAIN thr : thr[t].pc = "done" /\ thr[t].typ = "VirtualService"
    /\ ~(CachedFilterSecrets \subseteq watchedSecretSet)

(***************************************************************************)
(* Termination of the calls that take the lock (SpecLockFair).             *)
(***************************************************************************)
Holds(t) == mutex.writer = t \/ t \in mutex.readers

\* A thread at a Lock or RLock statement does not hold the lock.
NoLockRequestedWhileHeld ==
    \A t \in DOMAIN thr :
        (Running(t) /\ Statement(t).kind \in {"Lock", "RLock"}) => ~Holds(t)

\* A thread that is in no call holds no lock.
ReturnsWithoutTheLock == \A t \in DOMAIN thr : thr[t].pc = "idle" => ~Holds(t)

\* C30: no thread requests the lock while it holds it, every acquisition
\* is released before the call returns, and under fair scheduling every
\* pass, reader call and secret-change callback that was entered returns
\* (unless the process has ended).
C30_EveryCallTerminates ==
    /\ [](NoLockRequestedWhileHeld /\ ReturnsWithoutTheLock)
    /\ \A t \in Threads : Running(t) ~> (thr[t].pc = "idle" \/ Crashed)

\* A pass waits for the write lock of line 243 while a reader holds the
\* lock.
C30_Witness ==
    \E t, u \in DOMAIN thr :
        /\ t # u
        /\ Running(t) /\ Statement(t) = St(243, "Lock", "mutex")
        /\ u \in mutex.readers

(***************************************************************************)
(* Properties of List for the EnvoyFilter kind (SpecFilter).               *)
(***************************************************************************)
\* The filter cache after the first i calls.
FiltersAfter(i) == IF i = 0 THEN <<>> ELSE runs[i].filters

RECURSIVE LastCommittedFilters(_)
\* The filter list the last VirtualService pass among the first i calls
\* stored at lines 465-467; empty when there was none.
LastCommittedFilters(i) ==
    IF i = 0 THEN <<>>
    ELSE IF runs[i].typ = "VirtualService" /\ ~runs[i].panic THEN runs[i].filters
    ELSE LastCommittedFilters(i - 1)

\* The step is a call of List for the EnvoyFilter kind.
IsListEnvoyFilters ==
    /\ Len(runs') = Len(runs) + 1
    /\ runs'[Len(runs')].typ = "EnvoyFilter"

\* C31: List of the EnvoyFilter kind returns the filter list the most
\* recently committed VirtualService pass stored (empty before any), leaves
\* the route table, the domain table, the filter cache and the
\* watched-secret set as they were, and only a List of VirtualService
\* changes the filter cache.
C31_ListEnvoyFilterReadsTheCache ==
    /\ [](\A i \in DOMAIN runs :
            /\ runs[i].typ = "EnvoyFilter" => runs[i].val = LastCommittedFilters(i - 1)
            /\ runs[i].filters # FiltersAfter(i - 1) => runs[i].typ = "VirtualService")
    /\ [][IsListEnvoyFilters =>
            UNCHANGED <<ingressRouteCache, ingressDomainCache, cachedEnvoyFilters,
                        watchedSecretSet>>]_vars

\* Two VirtualService passes stored different filter lists, the second a
\* filter patch, and a List of EnvoyFilter then returned the second.
C31_Witness ==
    /\ Len(runs) = 3
    /\ runs[1].typ = "VirtualService" /\ runs[2].typ = "VirtualService"
    /\ runs[3].typ = "EnvoyFilter"
    /\ runs[1].filters # runs[2].filters
    /\ runs[3].val # <<>>
    /\ watchedSecretSet # {} /\ ingressRouteCache # {}

(***************************************************************************)
(* Properties of downstreamTLS.ApplyGateway (SpecGateway).                 *)
(***************************************************************************)
GatewayDone == pPc = "ApplyGateway"

\* The CA secret of the config is the one of the server's certificate.
CAMatchesServer(server) ==
    /\ config.DownstreamTLS.CASecretName.Name # <<>>
    /\ config.DownstreamTLS.CASecretName.Namespace
         = extraSecret(server.Tls.CredentialName).Namespace
    /\ config.DownstreamTLS.CASecretName.Name
         \in {extraSecret(server.Tls.CredentialName).Name,
              Append(extraSecret(server.Tls.CredentialName).Name, GatewaySdsCaSuffix)}

\* The text of a version annotation the parser kept, as the server's enum.
VersionApplied(kept, before) == IF kept = <<>> THEN before ELSE Convert(kept)

\* C32: ApplyGateway changes only TLS servers; a server's mode changes only
\* to mutual and only when the CA secret matches the server's certificate
\* secret (same namespace, same name or that name plus the CA suffix); a
\* server whose CA secret does not match keeps its mode and still gets the
\* configured versions and cipher suites; without a TLS config of the
\* object the gateway is unchanged.
C32_ApplyGatewayTouchesOnlyTLSServers ==
    GatewayDone =>
        /\ DOMAIN gResult = DOMAIN gGateway
        /\ config.DownstreamTLS.nil => gResult = gGateway
        /\ \A i \in DOMAIN gGateway :
             /\ ~IsTLSServer(gGateway[i]) => gResult[i] = gGateway[i]
             /\ gResult[i].Protocol = gGateway[i].Protocol
             /\ gResult[i].Tls.CredentialName = gGateway[i].Tls.CredentialName
             /\ gResult[i].Tls.Mode # gGateway[i].Tls.Mode
                  => gResult[i].Tls.Mode = "MUTUAL" /\ CAMatchesServer(gGateway[i])
             /\ (IsTLSServer(gGateway[i]) /\ ~config.DownstreamTLS.nil) =>
                  /\ gResult[i].Tls.MinProtocolVersion
                       = VersionApplied(config.DownstreamTLS.TlsMinVersion,
                                        gGateway[i].Tls.MinProtocolVersion)
                  /\ gResult[i].Tls.MaxProtocolVersion
                       = VersionApplied(config.DownstreamTLS.TlsMaxVersion,
                                        gGateway[i].Tls.MaxProtocolVersion)
                  /\ gResult[i].Tls.CipherSuites
                       = IF config.DownstreamTLS.CipherSuites = <<>>
                         THEN gGateway[i].Tls.CipherSuites
                         ELSE config.DownstreamTLS.CipherSuites

\* A gateway of two TLS servers with the CA secret ns2/cert-cacert: the
\* server with the certificate ns2/cert became mutual, the one with ns/cert
\* kept its mode, and both got the minimum version and the cipher suite.
C32_Witness ==
    /\ GatewayDone
    /\ Len(gGateway) = 2
    /\ \A i \in DOMAIN gGateway : IsTLSServer(gGateway[i])
    /\ gGateway[1].Tls.Mode = "SIMPLE" /\ gResult[1].Tls.Mode = "MUTUAL"
    /\ gGateway[2].Tls.Mode = "SIMPLE" /\ gResult[2].Tls.Mode = "SIMPLE"
    /\ config.DownstreamTLS.CASecretName.Name = <<"cert", "-cacert">>
    /\ \A i \in DOMAIN gGateway :
         /\ gResult[i].Tls.MinProtocolVersion = "TLSV1_2"
         /\ gResult[i].Tls.CipherSuites = <<<<"ECDHE-RSA-AES128-GCM-SHA256">>>>

\* A matching CA secret always makes a TLS server mutual.
MatchingCAMakesMutual ==
    GatewayDone =>
        \A i \in DOMAIN gGateway :
            (IsTLSServer(gGateway[i]) /\ ~config.DownstreamTLS.nil /\ CAMatchesServer(gGateway[i]))
                => gResult[i].Tls.Mode = "MUTUAL"

\* C8: a pass in which an adapter returned a conversion error still hands
\* every other object to its adapter in every stage, completes and returns
\* a result.
C8_ErrorDoesNotStopPass ==
    \A i \in DOMAIN runs :
        runs[i].errors > 0 => HandedAll(runs[i]) /\ ~runs[i].panic

=============================================================================
